---------------------------- MODULE Spec2Model ----------------------------
(***************************************************************************)
(* A model of xwlm (wlx_monitor_tui): the arrangement state of             *)
(* src/src/state.rs driven by the interactive loop of src/src/tui/ui.rs,   *)
(* the config formatters of src/src/compositor/format.rs and the saved     *)
(* position parsers of src/crates/xwlm-cfg/src/parse.rs.                   *)
(*                                                                         *)
(* Text is modelled as a sequence of one-character strings, so that the    *)
(* formatters and the parsers are computed character by character.         *)
(***************************************************************************)
EXTENDS Integers, Sequences, FiniteSets, TLC

(***************************************************************************)
(* Text primitives (the parts of Rust's str API the parsers use).          *)
(***************************************************************************)
\* Option<T>: None is the empty tuple, Some(v) is the one-element tuple <<v>>.
None == <<>>
Some(v) == <<v>>
IsSome(o) == o # <<>>
Unwrap(o) == o[1]

Whitespace == {" ", "\t", "\r", "\n"}

DigitChars == <<"0", "1", "2", "3", "4", "5", "6", "7", "8", "9">>

IsDigit(c) == \E i \in 1..10 : DigitChars[i] = c

DigitVal(c) == (CHOOSE i \in 1..10 : DigitChars[i] = c) - 1

RECURSIVE TrimStart(_)
TrimStart(s) ==
    IF s # <<>> /\ Head(s) \in Whitespace THEN TrimStart(Tail(s)) ELSE s

RECURSIVE TrimEnd(_)
TrimEnd(s) ==
    IF s # <<>> /\ s[Len(s)] \in Whitespace
    THEN TrimEnd(SubSeq(s, 1, Len(s) - 1))
    ELSE s

Trim(s) == TrimEnd(TrimStart(s))

RECURSIVE TrimStartMatches(_, _)
TrimStartMatches(s, cs) ==
    IF s # <<>> /\ Head(s) \in cs THEN TrimStartMatches(Tail(s), cs) ELSE s

StartsWith(s, p) == Len(s) >= Len(p) /\ SubSeq(s, 1, Len(p)) = p

Contains(s, p) ==
    \E i \in 1..(Len(s) + 1) :
        i + Len(p) - 1 <= Len(s) /\ SubSeq(s, i, i + Len(p) - 1) = p

\* str::split(c): the pieces between occurrences of c, empty pieces included.
RECURSIVE SplitChar(_, _)
SplitChar(s, c) ==
    IF \E i \in 1..Len(s) : s[i] = c
    THEN LET i == CHOOSE k \in 1..Len(s) :
                      s[k] = c /\ \A j \in 1..(k - 1) : s[j] # c
         IN  <<SubSeq(s, 1, i - 1)>> \o SplitChar(SubSeq(s, i + 1, Len(s)), c)
    ELSE <<s>>

\* str::lines(): split on "\n"; a final empty piece is not a line.
Lines(s) ==
    IF s = <<>> THEN <<>>
    ELSE IF s[Len(s)] = "\n" THEN SplitChar(SubSeq(s, 1, Len(s) - 1), "\n")
    ELSE SplitChar(s, "\n")

\* The length of the run of non-whitespace characters t starts with.
WordLen(t) ==
    IF \E i \in 1..Len(t) : t[i] \in Whitespace
    THEN (CHOOSE k \in 1..Len(t) :
              t[k] \in Whitespace /\ \A j \in 1..(k - 1) : t[j] \notin Whitespace) - 1
    ELSE Len(t)

\* The words of a text that does not start with whitespace.
RECURSIVE Words(_)
Words(t) ==
    IF t = <<>> THEN <<>>
    ELSE <<SubSeq(t, 1, WordLen(t))>>
         \o Words(TrimStart(SubSeq(t, WordLen(t) + 1, Len(t))))

\* str::split_whitespace(): the maximal runs of non-whitespace characters.
SplitWhitespace(s) == Words(TrimStart(s))

\* str::split_once(c): None, or Some of the text before and after the first c.
SplitOnce(s, c) ==
    IF \E i \in 1..Len(s) : s[i] = c
    THEN LET i == CHOOSE k \in 1..Len(s) :
                      s[k] = c /\ \A j \in 1..(k - 1) : s[j] # c
         IN  Some(<<SubSeq(s, 1, i - 1), SubSeq(s, i + 1, Len(s))>>)
    ELSE None

RECURSIVE DigitsValue(_)
DigitsValue(s) ==
    IF s = <<>> THEN 0
    ELSE 10 * DigitsValue(SubSeq(s, 1, Len(s) - 1)) + DigitVal(s[Len(s)])

\* The value of one or more digits; None for anything else.
ParseDigits(body) ==
    IF body = <<>> \/ \E i \in 1..Len(body) : ~IsDigit(body[i])
    THEN None
    ELSE Some(DigitsValue(body))

I32Max == 2147483647
I32Min == (0 - I32Max) - 1

\* The signed value, when there are digits and the value is an i32.
InI32(digits, negative) ==
    IF ~IsSome(digits) THEN None
    ELSE IF negative
    THEN (IF 0 - Unwrap(digits) < I32Min THEN None ELSE Some(0 - Unwrap(digits)))
    ELSE (IF Unwrap(digits) > I32Max THEN None ELSE digits)

\* str::parse::<i32>(): an optional sign, then one or more digits, in range.
ParseI32(s) ==
    InI32(ParseDigits(IF s # <<>> /\ Head(s) \in {"+", "-"} THEN Tail(s) ELSE s),
          s # <<>> /\ Head(s) = "-")

RECURSIVE NatToText(_)
NatToText(n) ==
    IF n < 10 THEN <<DigitChars[n + 1]>>
    ELSE NatToText(n \div 10) \o <<DigitChars[(n % 10) + 1]>>

\* Display for integers ("{}").
IntToText(n) == IF n < 0 THEN <<"-">> \o NatToText(0 - n) ELSE NatToText(n)

RECURSIVE Join(_, _)
Join(pieces, sep) ==
    IF pieces = <<>> THEN <<>>
    ELSE IF Len(pieces) = 1 THEN pieces[1]
    ELSE pieces[1] \o sep \o Join(Tail(pieces), sep)

\* The first Some of a sequence of options, None when there is none.
FirstSome(options) ==
    IF \E k \in 1..Len(options) : IsSome(options[k])
    THEN options[CHOOSE k \in 1..Len(options) :
                     IsSome(options[k]) /\ \A j \in 1..(k - 1) : ~IsSome(options[j])]
    ELSE None

(***************************************************************************)
(* Saved position parsers (crates/xwlm-cfg/src/parse.rs).                  *)
(***************************************************************************)
\* Some position when both coordinates parsed (the two `.ok()?`).
SavedPosition(x, y) ==
    IF IsSome(x) /\ IsSome(y) THEN Some([x |-> Unwrap(x), y |-> Unwrap(y)]) ELSE None

\* parse_xy_position reading the digits only: a leading sign fails the parse.
parse_xy_position_unsigned(s) ==
    LET split == SplitOnce(s, "x")
    IN  IF ~IsSome(split) THEN None
        ELSE SavedPosition(ParseDigits(Trim(Unwrap(split)[1])),
                           ParseDigits(Trim(Unwrap(split)[2])))

\* Parses a position string in "XxY" format.
parse_xy_position(s) ==
    LET split == SplitOnce(s, "x")
    IN  IF ~IsSome(split) THEN None
        ELSE SavedPosition(ParseI32(Trim(Unwrap(split)[1])),
                           ParseI32(Trim(Unwrap(split)[2])))

\* if let Some(v) = o { v } else { otherwise }, on options.
OrElse(o, otherwise) == IF IsSome(o) THEN o ELSE otherwise

\* The loop body with a disable directive erasing the position found so far.
HyprlandPositionStepErasing(found_position, parts, monitor_name) ==
    IF parts[1] # monitor_name THEN found_position
    ELSE IF \E i \in 1..Len(parts) : parts[i] = <<"d", "i", "s", "a", "b", "l", "e">>
    THEN None
    ELSE IF Len(parts) >= 3
    THEN OrElse(parse_xy_position(parts[3]), found_position)
    ELSE found_position

\* The loop body of parse_hyprland_position from the comma-separated parts
\* on: the value of found_position after the line.
HyprlandPositionStep(found_position, parts, monitor_name) ==
    IF parts[1] # monitor_name THEN found_position
    ELSE IF \E i \in 1..Len(parts) : parts[i] = <<"d", "i", "s", "a", "b", "l", "e">>
    THEN found_position
    ELSE IF Len(parts) >= 3
    THEN OrElse(parse_xy_position(parts[3]), found_position)
    ELSE found_position

\* split(',').map(|p| p.trim()) of a monitor line after its prefix.
HyprlandParts(line) ==
    LET split == SplitChar(Trim(TrimStartMatches(SubSeq(line, 8, Len(line)),
                                                 {" ", "="})), ",")
    IN  [i \in 1..Len(split) |-> Trim(split[i])]

\* The loop body reading a directive behind a comment sign as well.
HyprlandPositionLineUncommented(found_position, line, monitor_name) ==
    IF ~StartsWith(TrimStartMatches(line, {"#", " "}), <<"m", "o", "n", "i", "t", "o", "r">>)
    THEN found_position
    ELSE HyprlandPositionStep(found_position,
                              HyprlandParts(TrimStartMatches(line, {"#", " "})),
                              monitor_name)

\* The loop body of parse_hyprland_position for a trimmed line.
HyprlandPositionLine(found_position, line, monitor_name) ==
    IF StartsWith(line, <<"#">>)
       \/ ~StartsWith(line, <<"m", "o", "n", "i", "t", "o", "r">>)
    THEN found_position
    ELSE HyprlandPositionStep(found_position, HyprlandParts(line), monitor_name)

RECURSIVE HyprlandPositionScan(_, _, _)
HyprlandPositionScan(found_position, lines, monitor_name) ==
    IF lines = <<>> THEN found_position
    ELSE HyprlandPositionScan(
             HyprlandPositionLine(found_position, Trim(Head(lines)), monitor_name),
             Tail(lines), monitor_name)

parse_hyprland_position(content, monitor_name) ==
    HyprlandPositionScan(None, Lines(content), monitor_name)

\* The state of the loop of parse_sway_position is
\* [current_output, in_output_block, found]; found is the position returned.
\* A line that starts with "output" and has a second word opens an output.
SwayOutputOpens(state, line, words) ==
    IF StartsWith(line, <<"o", "u", "t", "p", "u", "t">>) /\ Len(words) >= 2
    THEN [state EXCEPT !.current_output = Some(words[2]),
                       !.in_output_block = Contains(line, <<"{">>)]
    ELSE state

SwayOutputCloses(state, line) ==
    IF state.in_output_block /\ Contains(line, <<"}">>)
    THEN [state EXCEPT !.in_output_block = FALSE, !.current_output = None]
    ELSE state

\* The test of the inner loop at word k: "pos" and two integers after it.
SwayPosAt(words, k) ==
    IF words[k] = <<"p", "o", "s">> /\ k + 2 <= Len(words)
    THEN SavedPosition(ParseI32(words[k + 1]), ParseI32(words[k + 2]))
    ELSE None

SwayPosLine(state, line, words, monitor_name) ==
    IF state.current_output # Some(monitor_name) THEN state
    ELSE IF \/ StartsWith(line, <<"p", "o", "s", " ">>)
            \/ Contains(line, <<" ", "p", "o", "s", " ">>)
    THEN [state EXCEPT !.found =
             FirstSome([k \in 1..Len(words) |-> SwayPosAt(words, k)])]
    ELSE state

\* The loop body of parse_sway_position for a trimmed line and its words.
SwayPositionStep(state, line, words, monitor_name) ==
    SwayPosLine(SwayOutputCloses(SwayOutputOpens(state, line, words), line),
                line, words, monitor_name)

RECURSIVE SwayPositionScan(_, _, _)
SwayPositionScan(state, lines, monitor_name) ==
    IF IsSome(state.found) THEN state.found
    ELSE IF lines = <<>> THEN None
    ELSE SwayPositionScan(
             SwayPositionStep(state, Trim(Head(lines)),
                              SplitWhitespace(Trim(Head(lines))), monitor_name),
             Tail(lines), monitor_name)

parse_sway_position(content, monitor_name) ==
    SwayPositionScan([current_output |-> None, in_output_block |-> FALSE,
                      found |-> None],
                     Lines(content), monitor_name)

(***************************************************************************)
(* Outputs.  A monitor is a record                                         *)
(*   [name, enabled, position: [x, y], modes, resolution, scale,           *)
(*    transform]                                                           *)
(* with modes a sequence of [width, height, refresh_rate, is_current,      *)
(* preferred] and scale counted in thousandths.                            *)
(***************************************************************************)
TRANSFORMS ==
    <<"Normal", "Rotate90", "Rotate180", "Rotate270",
      "Flipped", "Flipped90", "Flipped180", "Flipped270">>

\* iter().find(pred) over the modes, as the index of the mode found.
monitor_resolution(monitor) ==
    LET modes == monitor.modes
        first == IF \E i \in 1..Len(modes) : modes[i].is_current
                 THEN CHOOSE i \in 1..Len(modes) :
                          modes[i].is_current /\ \A j \in 1..(i - 1) : ~modes[j].is_current
                 ELSE IF \E i \in 1..Len(modes) : modes[i].preferred
                 THEN CHOOSE i \in 1..Len(modes) :
                          modes[i].preferred /\ \A j \in 1..(i - 1) : ~modes[j].preferred
                 ELSE 1
    IN  IF modes # <<>>
        THEN <<modes[first].width, modes[first].height>>
        ELSE <<monitor.resolution.width, monitor.resolution.height>>

\* The match of effective_dimensions on the transform.
Oriented(wh, transform) ==
    IF transform \in {"Rotate90", "Rotate270", "Flipped90", "Flipped270"}
    THEN <<wh[2], wh[1]>>
    ELSE wh

effective_dimensions(monitor) ==
    Oriented(monitor_resolution(monitor), monitor.transform)

(***************************************************************************)
(* Config formatters (src/compositor/format.rs).                           *)
(***************************************************************************)
current_mode(monitor) ==
    LET modes == monitor.modes
    IN  IF \E i \in 1..Len(modes) : modes[i].is_current
        THEN LET m == modes[CHOOSE i \in 1..Len(modes) :
                                modes[i].is_current
                                /\ \A j \in 1..(i - 1) : ~modes[j].is_current]
             IN  <<m.width, m.height, m.refresh_rate>>
        ELSE <<0, 0, 60>>

\* scale is in thousandths; the f64 the program holds is the double nearest
\* to scale / 1000.  2^j modulo 1000.
RECURSIVE Pow2Mod(_)
Pow2Mod(j) == IF j = 0 THEN 1 ELSE (2 * Pow2Mod(j - 1)) % 1000

\* The binary exponent of scale / 1000: its floor(log2).
RECURSIVE Exponent(_)
Exponent(scale) ==
    IF scale >= 2000 THEN Exponent(scale \div 2) + 1
    ELSE IF scale < 1000 THEN Exponent(2 * scale) - 1
    ELSE 0

\* Where the double stands against scale / 1000: the part of the 53-bit
\* significand cut off decides it (below half: rounded down, above: up).
F64Error(scale) ==
    LET cut == ((scale % 1000) * Pow2Mod(52 - Exponent(scale))) % 1000
    IN  IF cut = 0 THEN "exact" ELSE IF cut < 500 THEN "below" ELSE "above"

\* (scale - scale.round()).abs() < 0.001, on the doubles: an integer, or one
\* thousandth off it with the double on the integer's side.
NearInteger(scale) ==
    \/ scale % 1000 = 0
    \/ scale % 1000 = 1 /\ F64Error(scale) = "below"
    \/ scale % 1000 = 999 /\ F64Error(scale) = "above"

\* format!("{:.2}", scale): the double rounded to hundredths, a tie to even.
Hundredths(scale) ==
    IF scale % 10 > 5 THEN (scale \div 10) + 1
    ELSE IF scale % 10 < 5 THEN scale \div 10
    ELSE IF F64Error(scale) = "above" THEN (scale \div 10) + 1
    ELSE IF F64Error(scale) = "below" THEN scale \div 10
    ELSE (scale \div 10) + ((scale \div 10) % 2)

\* An integral scale is rendered by `scale as i32`, which truncates, any
\* other with two decimals.
format_scale(scale) ==
    IF NearInteger(scale)
    THEN IntToText(scale \div 1000)
    ELSE IntToText(Hundredths(scale) \div 100) \o <<".">>
         \o (IF Hundredths(scale) % 100 < 10 THEN <<"0">> ELSE <<>>)
         \o IntToText(Hundredths(scale) % 100)

transform_to_hyprland(t) ==
    (CHOOSE i \in 1..Len(TRANSFORMS) : TRANSFORMS[i] = t) - 1

transform_to_sway(t) ==
    CASE t = "Normal" -> <<"n", "o", "r", "m", "a", "l">>
      [] t = "Rotate90" -> <<"9", "0">>
      [] t = "Rotate180" -> <<"1", "8", "0">>
      [] t = "Rotate270" -> <<"2", "7", "0">>
      [] t = "Flipped" -> <<"f", "l", "i", "p", "p", "e", "d">>
      [] t = "Flipped90" -> <<"f", "l", "i", "p", "p", "e", "d", "-", "9", "0">>
      [] t = "Flipped180" -> <<"f", "l", "i", "p", "p", "e", "d", "-", "1", "8", "0">>
      [] t = "Flipped270" -> <<"f", "l", "i", "p", "p", "e", "d", "-", "2", "7", "0">>

RECURSIVE FlattenSeq(_)
FlattenSeq(ss) == IF ss = <<>> THEN <<>> ELSE Head(ss) \o FlattenSeq(Tail(ss))

\* "{}x{}@{}" of the current mode (w, h, refresh).
ModeText(mode) ==
    IntToText(mode[1]) \o <<"x">> \o IntToText(mode[2]) \o <<"@">> \o IntToText(mode[3])

\* The lines format_hyprland pushes for one monitor.
HyprlandMonitorLines(m) ==
    <<<<"m", "o", "n", "i", "t", "o", "r", " ", "=", " ">> \o m.name \o <<",", " ">>
      \o ModeText(current_mode(m)) \o <<",", " ">>
      \o IntToText(m.position.x) \o <<"x">> \o IntToText(m.position.y)
      \o <<",", " ">> \o format_scale(m.scale)
      \o (IF m.transform # "Normal"
          THEN <<",", " ", "t", "r", "a", "n", "s", "f", "o", "r", "m", ",", " ">>
               \o IntToText(transform_to_hyprland(m.transform))
          ELSE <<>>)>>
    \o (IF ~m.enabled
        THEN <<<<"m", "o", "n", "i", "t", "o", "r", " ", "=", " ">> \o m.name \o <<",", " ", "d", "i", "s", "a", "b", "l", "e">>>>
        ELSE <<>>)

HyprlandWorkspaceText(ws) ==
    <<"w", "o", "r", "k", "s", "p", "a", "c", "e", " ", "=", " ">> \o IntToText(ws.id) \o <<",", " ">>
    \o <<"m", "o", "n", "i", "t", "o", "r", ":">> \o ws.monitor
    \o (IF ws.is_default THEN <<",", "d", "e", "f", "a", "u", "l", "t", ":", "t", "r", "u", "e">> ELSE <<>>)
    \o (IF ws.is_persistent THEN <<",", "p", "e", "r", "s", "i", "s", "t", "e", "n", "t", ":", "t", "r", "u", "e">> ELSE <<>>)

format_hyprland(monitors, workspaces) ==
    Join(FlattenSeq([i \in 1..Len(monitors) |-> HyprlandMonitorLines(monitors[i])])
         \o (IF workspaces # <<>>
             THEN <<<<>>>> \o [i \in 1..Len(workspaces) |->
                                  HyprlandWorkspaceText(workspaces[i])]
             ELSE <<>>)
         \o <<<<>>>>,
         <<"\n">>)

\* The block format_sway pushes for one monitor.
SwayOutputBlock(m) ==
    IF ~m.enabled
    THEN <<"o", "u", "t", "p", "u", "t", " ">> \o m.name \o <<" ", "d", "i", "s", "a", "b", "l", "e">>
    ELSE <<"o", "u", "t", "p", "u", "t", " ">> \o m.name \o <<" ", "{">> \o <<"\n">>
         \o <<" ", " ", " ", " ", "m", "o", "d", "e", " ">> \o ModeText(current_mode(m)) \o <<"H", "z">> \o <<"\n">>
         \o <<" ", " ", " ", " ", "p", "o", "s", " ">> \o IntToText(m.position.x) \o <<" ">>
         \o IntToText(m.position.y) \o <<"\n">>
         \o <<" ", " ", " ", " ", "s", "c", "a", "l", "e", " ">> \o format_scale(m.scale) \o <<"\n">>
         \o <<" ", " ", " ", " ", "t", "r", "a", "n", "s", "f", "o", "r", "m", " ">> \o transform_to_sway(m.transform)
         \o <<"\n">> \o <<"}">>

format_sway(monitors, workspaces) ==
    Join([i \in 1..Len(monitors) |-> SwayOutputBlock(monitors[i])]
         \o (IF workspaces # <<>>
             THEN <<Join([i \in 1..Len(workspaces) |->
                             <<"w", "o", "r", "k", "s", "p", "a", "c", "e", " ">> \o IntToText(workspaces[i].id)
                             \o <<" ", "o", "u", "t", "p", "u", "t", " ">> \o workspaces[i].monitor],
                         <<"\n">>)>>
             ELSE <<>>)
         \o <<<<>>>>,
         <<"\n", "\n">>)

\* The line format_river pushes for one monitor.
RiverOutputLine(m) ==
    IF ~m.enabled
    THEN <<"w", "l", "r", "-", "r", "a", "n", "d", "r", " ", "-", "-", "o", "u", "t", "p", "u", "t", " ">> \o m.name \o <<" ", "-", "-", "o", "f", "f">>
    ELSE <<"w", "l", "r", "-", "r", "a", "n", "d", "r", " ", "-", "-", "o", "u", "t", "p", "u", "t", " ">> \o m.name
         \o <<" ", "-", "-", "m", "o", "d", "e", " ">> \o ModeText(current_mode(m)) \o <<"H", "z">>
         \o <<" ", "-", "-", "p", "o", "s", " ">> \o IntToText(m.position.x) \o <<",">>
         \o IntToText(m.position.y)
         \o <<" ", "-", "-", "s", "c", "a", "l", "e", " ">> \o format_scale(m.scale)
         \o <<" ", "-", "-", "t", "r", "a", "n", "s", "f", "o", "r", "m", " ">> \o transform_to_sway(m.transform)

\* The script without the empty line pushed last.
format_river_unterminated(monitors) ==
    Join(<<<<"#", "!", "/", "b", "i", "n", "/", "s", "h">>>>
         \o [i \in 1..Len(monitors) |-> RiverOutputLine(monitors[i])],
         <<"\n">>)

format_river(monitors) ==
    Join(<<<<"#", "!", "/", "b", "i", "n", "/", "s", "h">>>>
         \o [i \in 1..Len(monitors) |-> RiverOutputLine(monitors[i])]
         \o <<<<>>>>,
         <<"\n">>)

\* The text save_monitor_config writes for a compositor that has a dialect.
SavedContent(compositor, monitors, workspaces) ==
    <<"#", " ", "T", "h", "i", "s", " ", "f", "i", "l", "e", " ", "i", "s", " ", "m", "a", "n", "a", "g", "e", "d", " ", "b", "y", " ", "x", "w", "l", "m", ".", " ", "D", "o", " ", "n", "o", "t", " ", "e", "d", "i", "t", " ", "m", "a", "n", "u", "a", "l", "l", "y", ".">> \o <<"\n", "\n">>
    \o (CASE compositor = "Hyprland" -> format_hyprland(monitors, workspaces)
          [] compositor = "Sway" -> format_sway(monitors, workspaces)
          [] compositor = "River" -> format_river(monitors))

(***************************************************************************)
(* Workspace rule parsers (src/compositor/workspace_config.rs).            *)
(* A rule is [id, monitor, is_default, is_persistent].                     *)
(***************************************************************************)
RECURSIVE TrimMatches(_, _)
TrimMatches(s, c) ==
    IF s # <<>> /\ Head(s) = c THEN TrimMatches(Tail(s), c)
    ELSE IF s # <<>> /\ s[Len(s)] = c
    THEN TrimMatches(SubSeq(s, 1, Len(s) - 1), c)
    ELSE s

\* str::parse::<usize>(): an optional "+", then one or more digits.
ParseUsize(s) == ParseDigits(IF s # <<>> /\ Head(s) = "+" THEN Tail(s) ELSE s)

\* trim().trim_matches('"').trim_matches(':')
MonitorNameOf(name) == TrimMatches(TrimMatches(Trim(name), "\""), ":")

\* The name in the text after "monitor:".
MonitorPartName(monitor_part) ==
    IF IsSome(SplitOnce(monitor_part, ","))
    THEN MonitorNameOf(Unwrap(SplitOnce(monitor_part, ","))[1])
    ELSE MonitorNameOf(monitor_part)

extract_monitor_name(rules) ==
    IF StartsWith(rules, <<"m", "o", "n", "i", "t", "o", "r", ":">>)
    THEN MonitorPartName(Trim(SubSeq(rules, 9, Len(rules))))
    ELSE Trim(SplitChar(rules, ",")[1])

\* strip_prefix(prefix)?: None, or Some of the text after the prefix.
StripPrefix(s, prefix) ==
    IF StartsWith(s, prefix) THEN Some(SubSeq(s, Len(prefix) + 1, Len(s))) ELSE None

\* The rule with is_default taken from the flag's name alone.
HyprlandRuleNamed(id, rules_str) ==
    IF ~IsSome(id) THEN None
    ELSE Some([id |-> Unwrap(id),
               monitor |-> extract_monitor_name(rules_str),
               is_default |-> Contains(rules_str, <<"d", "e", "f", "a", "u", "l", "t", ":">>),
               is_persistent |-> Contains(rules_str, <<"p", "e", "r", "s", "i", "s", "t", "e", "n", "t", ":", "t", "r", "u", "e">>)])

\* The rule of a Hyprland workspace line from its id and its trimmed rules.
HyprlandRule(id, rules_str) ==
    IF ~IsSome(id) THEN None
    ELSE Some([id |-> Unwrap(id),
               monitor |-> extract_monitor_name(rules_str),
               is_default |-> Contains(rules_str, <<"d", "e", "f", "a", "u", "l", "t", ":", "t", "r", "u", "e">>),
               is_persistent |-> Contains(rules_str, <<"p", "e", "r", "s", "i", "s", "t", "e", "n", "t", ":", "t", "r", "u", "e">>)])

\* rest.split_once(',')? and what follows it.
HyprlandRuleOfSplit(split) ==
    IF ~IsSome(split) THEN None
    ELSE HyprlandRule(ParseUsize(Trim(Unwrap(split)[1])), Trim(Unwrap(split)[2]))

\* rest.strip_prefix('=')?.trim_start() and what follows it.
HyprlandRuleAfterEquals(rest) ==
    IF ~IsSome(rest) THEN None
    ELSE HyprlandRuleOfSplit(SplitOnce(TrimStart(Unwrap(rest)), ","))

\* trimmed.strip_prefix("workspace")?.trim_start() and what follows it.
HyprlandRuleAfterWorkspace(rest) ==
    IF ~IsSome(rest) THEN None
    ELSE HyprlandRuleAfterEquals(StripPrefix(TrimStart(Unwrap(rest)), <<"=">>))

\* The closure of parse_hyprland_workspaces for a trimmed line: None or
\* Some rule.
HyprlandWorkspaceLine(trimmed) ==
    IF trimmed = <<>> \/ StartsWith(trimmed, <<"#">>) THEN None
    ELSE HyprlandRuleAfterWorkspace(
             StripPrefix(trimmed, <<"w", "o", "r", "k", "s", "p", "a", "c", "e">>))

\* split_once(char::is_whitespace): None, or Some of the text before and
\* after the first whitespace character.
SplitOnceWhitespace(s) ==
    IF \E k \in 1..Len(s) : s[k] \in Whitespace
    THEN Some(<<SubSeq(s, 1, WordLen(s)), SubSeq(s, WordLen(s) + 2, Len(s))>>)
    ELSE None

\* The rule of a Sway workspace line from its id and the output it names.
SwayRule(id, monitor) ==
    IF ~IsSome(id) \/ ~IsSome(monitor) THEN None
    ELSE Some([id |-> Unwrap(id), monitor |-> Trim(Unwrap(monitor)),
               is_default |-> FALSE, is_persistent |-> FALSE])

\* rest.split_once(char::is_whitespace)? and what follows it.
SwayRuleOfSplit(split) ==
    IF ~IsSome(split) THEN None
    ELSE SwayRule(ParseUsize(Trim(Unwrap(split)[1])),
                  StripPrefix(Trim(Unwrap(split)[2]), <<"o", "u", "t", "p", "u", "t">>))

\* trimmed.strip_prefix("workspace")?.trim_start() and what follows it.
SwayRuleAfterWorkspace(rest) ==
    IF ~IsSome(rest) THEN None
    ELSE SwayRuleOfSplit(SplitOnceWhitespace(TrimStart(Unwrap(rest))))

\* The closure of parse_sway_workspaces for a trimmed line: None or Some rule.
SwayWorkspaceLine(trimmed) ==
    IF trimmed = <<>> \/ StartsWith(trimmed, <<"#">>) THEN None
    ELSE SwayRuleAfterWorkspace(
             StripPrefix(trimmed, <<"w", "o", "r", "k", "s", "p", "a", "c", "e">>))

\* filter_map(...).collect() over the lines of the content.
RECURSIVE FilterMapLines(_, _)
FilterMapLines(lines, hyprland) ==
    IF lines = <<>> THEN <<>>
    ELSE (IF hyprland THEN HyprlandWorkspaceLine(Trim(Head(lines)))
                      ELSE SwayWorkspaceLine(Trim(Head(lines))))
         \o FilterMapLines(Tail(lines), hyprland)

parse_hyprland_workspaces(content) == FilterMapLines(Lines(content), TRUE)

parse_sway_workspaces(content) == FilterMapLines(Lines(content), FALSE)

\* file is None (no readable file) or Some(content).
parse_workspace_config(compositor, file) ==
    IF ~IsSome(file) THEN <<>>
    ELSE IF compositor = "Hyprland" THEN parse_hyprland_workspaces(Unwrap(file))
    ELSE IF compositor = "Sway" THEN parse_sway_workspaces(Unwrap(file))
    ELSE <<>>

\* Compositor::supports_workspace_defaults (src/compositor/mod.rs).
supports_workspace_defaults(compositor) == compositor = "Hyprland"

\* get_position (src/compositor/position.rs).
get_position(compositor, file, monitor_name) ==
    IF ~IsSome(file) THEN None
    ELSE IF compositor = "Hyprland"
    THEN parse_hyprland_position(Unwrap(file), monitor_name)
    ELSE IF compositor = "Sway"
    THEN parse_sway_position(Unwrap(file), monitor_name)
    ELSE None

(***************************************************************************)
(* State.  The fields of App (src/state.rs), the two channels between the  *)
(* interactive loop and the protocol thread, the monitor config file, the  *)
(* protocol thread's own view of the outputs and the loop's position.      *)
(* Indices (selected_monitor, monitor_idx, the keys of the two pending     *)
(* overlays, workspace_state) are 0-based as in the source; a sequence is  *)
(* read at index + 1.                                                      *)
(***************************************************************************)
VARIABLES
    monitors,                     \* Vec<WlMonitor>
    selected_monitor,             \* usize
    panel,                        \* Panel
    compositor,                   \* Compositor
    workspace_assignments,        \* Vec<WorkspaceAssignment>
    needs_save,                   \* bool
    pending_positions,            \* HashMap<usize, (i32, i32)>: key -> Option
    pending_workspaces,           \* HashMap<usize, WorkspaceAssignment>
    workspace_state,              \* ListState: the selected workspace row
    pending_last_toggle_monitor,  \* bool: the confirmation flag
    error_message,                \* Option<String>, by the message's prefix
    move_repeat_count,            \* u32
    last_move_direction,          \* Option<PositionDirection>
    initial_workspaces,           \* Option<Vec<WorkspaceRule>>
    commands,                     \* command channel: sent, not yet received
    events,                       \* event channel: sent, not yet received
    receiver_alive,               \* the protocol thread holds the Receiver
    config_file,                  \* None, or Some(text) of the config file
    outputs,                      \* the protocol thread's view of the outputs
    hotplugs_left,                \* the hot-plugs and resyncs still to come, if bounded
    loop_pc,                      \* tui_loop: "drain", "key" or "quit"
    had_events,                   \* tui_loop's local of the same name
    last_key,                     \* the key this iteration has handled
    keys_left,                    \* the keys the user will still press, if bounded
    fn_in,                        \* pure-function checks: the input
    fn_out,                       \* pure-function checks: the result
    files,                        \* the compositor's config files: path -> text
    setup,                        \* first-time setup: SetupState and where init is
    sending,                      \* the commands the handler blocked in send() has yet to send
    delivering,                   \* the events the protocol thread, blocked, has yet to send
    asked                         \* history: the output whose disabling awaits confirmation

appVars ==
    <<monitors, selected_monitor, panel, compositor, workspace_assignments,
      needs_save, pending_positions, pending_workspaces, workspace_state,
      pending_last_toggle_monitor, error_message, move_repeat_count,
      last_move_direction, initial_workspaces, commands, config_file>>

envVars == <<events, receiver_alive, outputs, hotplugs_left>>

loopVars == <<loop_pc, had_events, last_key, keys_left>>

fnVars == <<fn_in, fn_out>>

setupVars == <<files, setup>>

chanVars == <<sending, delivering>>

vars == <<appVars, envVars, loopVars, fnVars, setupVars, chanVars, asked>>

\* The App together with what its methods write to: the command channel
\* and the config file.  ret is the Result of the method that ran last.
World ==
    [monitors |-> monitors,
     selected_monitor |-> selected_monitor,
     panel |-> panel,
     compositor |-> compositor,
     workspace_assignments |-> workspace_assignments,
     needs_save |-> needs_save,
     pending_positions |-> pending_positions,
     pending_workspaces |-> pending_workspaces,
     workspace_state |-> workspace_state,
     pending_last_toggle_monitor |-> pending_last_toggle_monitor,
     error_message |-> error_message,
     move_repeat_count |-> move_repeat_count,
     last_move_direction |-> last_move_direction,
     initial_workspaces |-> initial_workspaces,
     commands |-> commands,
     config_file |-> config_file,
     receiver_alive |-> receiver_alive,
     ret |-> "Ok"]

Becomes(w) ==
    /\ monitors' = w.monitors
    /\ selected_monitor' = w.selected_monitor
    /\ panel' = w.panel
    /\ compositor' = w.compositor
    /\ workspace_assignments' = w.workspace_assignments
    /\ needs_save' = w.needs_save
    /\ pending_positions' = w.pending_positions
    /\ pending_workspaces' = w.pending_workspaces
    /\ workspace_state' = w.workspace_state
    /\ pending_last_toggle_monitor' = w.pending_last_toggle_monitor
    /\ error_message' = w.error_message
    /\ move_repeat_count' = w.move_repeat_count
    /\ last_move_direction' = w.last_move_direction
    /\ initial_workspaces' = w.initial_workspaces
    /\ commands' = w.commands
    /\ config_file' = w.config_file

(***************************************************************************)
(* Bounds of the model.                                                    *)
(***************************************************************************)
MaxMonitors == 3
MaxWorkspaces == 2
MaxCoord == 4
MaxRepeat == 1
CommandCap == 2
EventCap == 1
MaxKeys == 2
MaxHotplugs == 1

MonitorKeys == 0..(MaxMonitors - 1)
WorkspaceKeys == 0..(MaxWorkspaces - 1)

EmptyPositions == [k \in MonitorKeys |-> None]
EmptyWorkspaces == [k \in WorkspaceKeys |-> None]

\* The keys a pending overlay holds.
Keys(map) == {k \in DOMAIN map : IsSome(map[k])}

\* iter().position(|m| m.name == name): None or Some(0-based index).
NamePosition(ms, name) ==
    IF \E i \in 1..Len(ms) : ms[i].name = name
    THEN Some((CHOOSE i \in 1..Len(ms) :
                   ms[i].name = name /\ \A j \in 1..(i - 1) : ms[j].name # name) - 1)
    ELSE None

(***************************************************************************)
(* App (src/state.rs).  Every method is an operator from the world before  *)
(* the call to the world after it.                                         *)
(***************************************************************************)
RECURSIVE ResolveRules(_, _, _)
ResolveRules(assignments, rules, ms) ==
    IF rules = <<>> THEN assignments
    ELSE LET rule == Head(rules)
             hit(i) == assignments[i].id = rule.id
         IN  IF \E i \in 1..Len(assignments) : hit(i)
             THEN LET i == CHOOSE k \in 1..Len(assignments) :
                               hit(k) /\ \A j \in 1..(k - 1) : ~hit(j)
                  IN  ResolveRules(
                          [assignments EXCEPT
                              ![i].monitor_idx = NamePosition(ms, rule.monitor),
                              ![i].is_default = rule.is_default,
                              ![i].is_persistent = rule.is_persistent],
                          Tail(rules), ms)
             ELSE ResolveRules(assignments, Tail(rules), ms)

resolve_initial_workspaces(w) ==
    IF ~IsSome(w.initial_workspaces) THEN w
    ELSE [w EXCEPT
             !.workspace_assignments =
                 ResolveRules(@, Unwrap(w.initial_workspaces), w.monitors),
             !.initial_workspaces = None]

validate_workspace_assignments(w) ==
    [w EXCEPT !.workspace_assignments =
        [i \in 1..Len(@) |->
            IF IsSome(@[i].monitor_idx) /\ Unwrap(@[i].monitor_idx) >= Len(w.monitors)
            THEN [@[i] EXCEPT !.monitor_idx = None]
            ELSE @[i]]]

set_monitors(w, list) ==
    validate_workspace_assignments(
        resolve_initial_workspaces(
            [w EXCEPT !.monitors = list,
                      !.selected_monitor = IF list # <<>> THEN 0 ELSE @]))

sanitize_selection(w) ==
    IF w.monitors = <<>> THEN [w EXCEPT !.selected_monitor = 0]
    ELSE IF w.selected_monitor >= Len(w.monitors)
    THEN [w EXCEPT !.selected_monitor = Len(w.monitors) - 1]
    ELSE w

update_monitor(w, monitor) ==
    LET at == NamePosition(w.monitors, monitor.name)
    IN  IF IsSome(at)
        THEN [w EXCEPT !.monitors[Unwrap(at) + 1] = monitor]
        ELSE sanitize_selection([w EXCEPT !.monitors = Append(@, monitor)])

\* The loop of remove_monitor over the keys collected from the map, in the
\* order the HashMap yields them.
RECURSIVE ShiftKeys(_, _, _)
ShiftKeys(map, order, idx) ==
    IF order = <<>> THEN map
    ELSE LET key == Head(order)
         IN  IF key > idx /\ IsSome(map[key])
             THEN ShiftKeys([map EXCEPT ![key] = None, ![key - 1] = map[key]],
                            Tail(order), idx)
             ELSE ShiftKeys(map, Tail(order), idx)

\* order: the keys left after the removal of idx, in the HashMap's order.
\* remove_monitor leaving the selection where it was.
remove_monitor_unclamped(w, name, order) ==
    LET removed_idx == NamePosition(w.monitors, name)
        kept == SelectSeq(w.monitors, LAMBDA m : m.name # name)
    IN  IF ~IsSome(removed_idx) THEN [w EXCEPT !.monitors = kept]
        ELSE [w EXCEPT
                 !.monitors = kept,
                 !.pending_positions =
                     ShiftKeys([@ EXCEPT ![Unwrap(removed_idx)] = None],
                               order, Unwrap(removed_idx))]

remove_monitor(w, name, order) ==
    LET removed_idx == NamePosition(w.monitors, name)
        kept == SelectSeq(w.monitors, LAMBDA m : m.name # name)
    IN  IF ~IsSome(removed_idx) THEN [w EXCEPT !.monitors = kept]
        ELSE [w EXCEPT
                 !.monitors = kept,
                 !.pending_positions =
                     ShiftKeys([@ EXCEPT ![Unwrap(removed_idx)] = None],
                               order, Unwrap(removed_idx)),
                 !.selected_monitor =
                     IF @ >= Len(kept)
                     THEN (IF Len(kept) = 0 THEN 0 ELSE Len(kept) - 1)
                     ELSE @]

display_position(w, idx) ==
    IF idx \in DOMAIN w.pending_positions /\ IsSome(w.pending_positions[idx])
    THEN Unwrap(w.pending_positions[idx])
    ELSE IF idx < Len(w.monitors)
    THEN <<w.monitors[idx + 1].position.x, w.monitors[idx + 1].position.y>>
    ELSE <<0, 0>>

set_error(w, msg) == [w EXCEPT !.error_message = Some(msg)]

clear_error(w) == [w EXCEPT !.error_message = None]

enabled_count(w) == Cardinality({i \in 1..Len(w.monitors) : w.monitors[i].enabled})

dismiss_warning(w) == [w EXCEPT !.pending_last_toggle_monitor = FALSE]

\* SyncSender::send: Err once the Receiver is gone, else the command is queued.
Send(w, command) ==
    IF w.receiver_alive
    THEN [w EXCEPT !.commands = Append(@, command), !.ret = "Ok"]
    ELSE [w EXCEPT !.ret = "Err"]

\* The rectangle test of position_overlaps and of move_monitor, on
\* (x, y) positions and (width, height) sizes.
RectsOverlap(pos, size, other_pos, other_size) ==
    /\ pos[1] < other_pos[1] + other_size[1]
    /\ pos[1] + size[1] > other_pos[1]
    /\ pos[2] < other_pos[2] + other_size[2]
    /\ pos[2] + size[2] > other_pos[2]

position_overlaps(w, exclude_name, pos, size) ==
    \E i \in 1..Len(w.monitors) :
        /\ ~(w.monitors[i].name = exclude_name \/ ~w.monitors[i].enabled)
        /\ RectsOverlap(pos, size,
                        <<w.monitors[i].position.x, w.monitors[i].position.y>>,
                        effective_dimensions(w.monitors[i]))

SetMin(S) == CHOOSE v \in S : \A u \in S : v <= u
SetMax(S) == CHOOSE v \in S : \A u \in S : v >= u
Abs(n) == IF n < 0 THEN 0 - n ELSE n

\* The enabled monitors other than exclude_name, as indices into monitors.
OtherEnabled(w, exclude_name) ==
    {i \in 1..Len(w.monitors) :
        w.monitors[i].enabled /\ w.monitors[i].name # exclude_name}

\* max_right over the enabled monitors en.
MaxRight(w, en) ==
    SetMax({w.monitors[i].position.x + effective_dimensions(w.monitors[i])[1] : i \in en})

\* The four candidates in the order they are pushed.
Candidates(w, en, size) ==
    <<<<SetMin({w.monitors[i].position.x : i \in en}) - size[1], 0>>,
      <<MaxRight(w, en), 0>>,
      <<0, SetMin({w.monitors[i].position.y : i \in en}) - size[2]>>,
      <<0, SetMax({w.monitors[i].position.y
                      + effective_dimensions(w.monitors[i])[2] : i \in en})>>>>

\* max_by_key in the place of min_by_key: the last of the farthest.
Farthest(free, preferred_pos, otherwise) ==
    LET dist(pos) == Abs(pos[1] - preferred_pos[1]) + Abs(pos[2] - preferred_pos[2])
    IN  IF free = <<>> THEN otherwise
        ELSE free[CHOOSE k \in 1..Len(free) :
                      /\ \A j \in 1..Len(free) : dist(free[k]) >= dist(free[j])
                      /\ \A j \in (k + 1)..Len(free) : dist(free[j]) < dist(free[k])]

\* min_by_key over the distances to preferred_pos (the first of the nearest),
\* unwrap_or(otherwise).
Nearest(free, preferred_pos, otherwise) ==
    LET dist(pos) == Abs(pos[1] - preferred_pos[1]) + Abs(pos[2] - preferred_pos[2])
    IN  IF free = <<>> THEN otherwise
        ELSE free[CHOOSE k \in 1..Len(free) :
                      /\ \A j \in 1..Len(free) : dist(free[k]) <= dist(free[j])
                      /\ \A j \in 1..(k - 1) : dist(free[j]) > dist(free[k])]

calculate_closest_non_overlapping_position(w, exclude_name, preferred_pos, size) ==
    IF OtherEnabled(w, exclude_name) = {} THEN preferred_pos
    ELSE Nearest(SelectSeq(Candidates(w, OtherEnabled(w, exclude_name), size),
                           LAMBDA pos : ~position_overlaps(w, exclude_name, pos, size)),
                 preferred_pos,
                 <<MaxRight(w, OtherEnabled(w, exclude_name)), 0>>)

calculate_non_overlapping_position(w, exclude_name) ==
    IF OtherEnabled(w, exclude_name) = {} THEN <<0, 0>>
    ELSE <<MaxRight(w, OtherEnabled(w, exclude_name)), 0>>

\* find(name).map(effective_dimensions).unwrap_or((1920, 1080))
ToggleSize(w, at) ==
    IF IsSome(at) THEN effective_dimensions(w.monitors[Unwrap(at) + 1])
    ELSE <<1920, 1080>>

\* perform_toggle relocating every saved position, overlapping or not.
EnablePositionRelocating(w, monitor_name, saved_pos, size) ==
    IF IsSome(saved_pos)
    THEN calculate_closest_non_overlapping_position(
             w, monitor_name, <<Unwrap(saved_pos).x, Unwrap(saved_pos).y>>, size)
    ELSE calculate_non_overlapping_position(w, monitor_name)

\* The position an output is enabled at, from its saved position and size.
EnablePosition(w, monitor_name, saved_pos, size) ==
    IF IsSome(saved_pos)
    THEN IF position_overlaps(w, monitor_name,
                              <<Unwrap(saved_pos).x, Unwrap(saved_pos).y>>, size)
         THEN calculate_closest_non_overlapping_position(
                  w, monitor_name, <<Unwrap(saved_pos).x, Unwrap(saved_pos).y>>, size)
         ELSE <<Unwrap(saved_pos).x, Unwrap(saved_pos).y>>
    ELSE calculate_non_overlapping_position(w, monitor_name)

\* send(..)?; self.needs_save = true;
SentNeedsSave(sent) ==
    IF sent.ret = "Err" THEN sent ELSE [sent EXCEPT !.needs_save = TRUE]

perform_toggle(w, monitor_name, currently_enabled) ==
    SentNeedsSave(
        Send(w, [type |-> "Toggle", name |-> monitor_name,
                 position |->
                     IF ~currently_enabled
                     THEN Some(EnablePosition(
                              w, monitor_name,
                              get_position(w.compositor, w.config_file, monitor_name),
                              ToggleSize(w, NamePosition(w.monitors, monitor_name))))
                     ELSE None]))

\* toggle_monitor without the check for the only enabled monitor.
toggle_monitor_unchecked(w) ==
    IF w.pending_last_toggle_monitor
    THEN LET w1 == [w EXCEPT !.pending_last_toggle_monitor = FALSE]
         IN  IF w.selected_monitor >= Len(w.monitors) THEN [w1 EXCEPT !.ret = "Ok"]
             ELSE perform_toggle(w1, w.monitors[w.selected_monitor + 1].name,
                                 w.monitors[w.selected_monitor + 1].enabled)
    ELSE IF w.selected_monitor >= Len(w.monitors) THEN [w EXCEPT !.ret = "Ok"]
    ELSE perform_toggle(w, w.monitors[w.selected_monitor + 1].name,
                        w.monitors[w.selected_monitor + 1].enabled)

toggle_monitor(w) ==
    IF w.pending_last_toggle_monitor
    THEN LET w1 == [w EXCEPT !.pending_last_toggle_monitor = FALSE]
         IN  IF w.selected_monitor >= Len(w.monitors) THEN [w1 EXCEPT !.ret = "Ok"]
             ELSE perform_toggle(w1, w.monitors[w.selected_monitor + 1].name,
                                 w.monitors[w.selected_monitor + 1].enabled)
    ELSE IF w.selected_monitor >= Len(w.monitors) THEN [w EXCEPT !.ret = "Ok"]
    ELSE IF w.monitors[w.selected_monitor + 1].enabled /\ enabled_count(w) = 1
    THEN [w EXCEPT !.pending_last_toggle_monitor = TRUE, !.ret = "Ok"]
    ELSE perform_toggle(w, w.monitors[w.selected_monitor + 1].name,
                        w.monitors[w.selected_monitor + 1].enabled)

\* The coordinate as it is, without max(0).
Unclamped(n) == n

Max0(n) == IF n < 0 THEN 0 ELSE n

\* The match on the direction for a step, then max(0) on both coordinates.
Stepped(cur, direction, step) ==
    CASE direction = "Left" -> <<Max0(cur[1] - step), Max0(cur[2])>>
      [] direction = "Right" -> <<Max0(cur[1] + step), Max0(cur[2])>>
      [] direction = "Up" -> <<Max0(cur[1]), Max0(cur[2] - step)>>
      [] direction = "Down" -> <<Max0(cur[1]), Max0(cur[2] + step)>>

\* find over the monitors: None, or Some index of the first enabled monitor
\* other than the selected one whose displayed rectangle new_pos would hit.
Collided(w, new_pos, sel) ==
    FirstSome([k \in 1..Len(w.monitors) |->
                  IF /\ k - 1 # w.selected_monitor
                     /\ w.monitors[k].enabled
                     /\ RectsOverlap(new_pos, sel, display_position(w, k - 1),
                                     effective_dimensions(w.monitors[k]))
                  THEN Some(k - 1)
                  ELSE None])

\* The match on the direction for a swap: (new_pos_selected, new_pos_other).
SwapPositions(direction, cur, sel, other, other_size) ==
    CASE direction = "Left" ->
           <<<<other[1], other[2]>>, <<other[1] + sel[1], other[2]>>>>
      [] direction = "Right" ->
           <<<<cur[1] + other_size[1], cur[2]>>, <<cur[1], cur[2]>>>>
      [] direction = "Up" ->
           <<<<other[1], other[2]>>, <<other[1], other[2] + sel[2]>>>>
      [] direction = "Down" ->
           <<<<cur[1], cur[2] + other_size[2]>>, <<cur[1], cur[2]>>>>

\* The two insertions after a collision, each position with max(0).
InsertSwapped(w, other_idx, swap) ==
    [w EXCEPT !.pending_positions =
        [@ EXCEPT ![w.selected_monitor] = Some(<<Max0(swap[1][1]), Max0(swap[1][2])>>),
                  ![other_idx] = Some(<<Max0(swap[2][1]), Max0(swap[2][2])>>)]]

\* The insertions into pending_positions, from the outcome of the find.
Placed(w, direction, cur, sel, new_pos, collided) ==
    IF IsSome(collided)
    THEN InsertSwapped(w, Unwrap(collided),
                       SwapPositions(direction, cur, sel,
                                     display_position(w, Unwrap(collided)),
                                     effective_dimensions(w.monitors[Unwrap(collided) + 1])))
    ELSE [w EXCEPT !.pending_positions[w.selected_monitor] = Some(new_pos)]

\* move_monitor from the new position on.
MovedTo(w, direction, cur, sel, new_pos) ==
    Placed(w, direction, cur, sel, new_pos, Collided(w, new_pos, sel))

\* The repeat count growing whatever the direction of the last move was.
RepeatedAnyDirection(w, direction, within) ==
    [w EXCEPT !.move_repeat_count = IF within THEN @ + 1 ELSE 0,
              !.last_move_direction = Some(direction)]

\* The repeat count and the direction move_monitor records.
\* within: the move comes less than REPEAT_WINDOW_MS after the last one.
Repeated(w, direction, within) ==
    [w EXCEPT !.move_repeat_count =
                  IF within /\ w.last_move_direction = Some(direction) THEN @ + 1 ELSE 0,
              !.last_move_direction = Some(direction)]

\* move_monitor from the step on.
MovedBy(w, direction) ==
    MovedTo(w, direction,
            display_position(w, w.selected_monitor),
            effective_dimensions(w.monitors[w.selected_monitor + 1]),
            Stepped(display_position(w, w.selected_monitor), direction,
                    1 + (w.move_repeat_count * 2)))

move_monitor(w, direction, within) ==
    IF w.selected_monitor >= Len(w.monitors) THEN w
    ELSE IF ~w.monitors[w.selected_monitor + 1].enabled THEN w
    ELSE MovedBy(Repeated(w, direction, within), direction)

get_effective_workspace(w, idx) ==
    IF idx \in DOMAIN w.pending_workspaces /\ IsSome(w.pending_workspaces[idx])
    THEN w.pending_workspaces[idx]
    ELSE IF idx < Len(w.workspace_assignments)
    THEN Some(w.workspace_assignments[idx + 1])
    ELSE None

cycle_workspace_monitor(w, forward) ==
    LET ws_idx == w.workspace_state
        effective == get_effective_workspace(w, ws_idx)
        n == Len(w.monitors)
        first_or_last == IF forward THEN Some(0) ELSE Some(n - 1)
        idx == Unwrap(Unwrap(effective).monitor_idx)
        new_monitor_idx ==
            IF ~IsSome(Unwrap(effective).monitor_idx) THEN first_or_last
            ELSE IF idx < n
            THEN IF forward
                 THEN (IF idx + 1 >= n THEN None ELSE Some(idx + 1))
                 ELSE (IF idx = 0 THEN None ELSE Some(idx - 1))
            ELSE first_or_last
    IN  IF ~IsSome(effective) THEN w
        ELSE IF n = 0 THEN w
        ELSE [w EXCEPT !.pending_workspaces[ws_idx] =
                 Some([Unwrap(effective) EXCEPT !.monitor_idx = new_monitor_idx])]

toggle_persistent(w) ==
    LET ws_idx == w.workspace_state
        effective == get_effective_workspace(w, ws_idx)
    IN  IF ~IsSome(effective) THEN w
        ELSE [w EXCEPT !.pending_workspaces[ws_idx] =
                 Some([Unwrap(effective) EXCEPT !.is_persistent = ~@])]

toggle_default(w) ==
    LET ws_idx == w.workspace_state
        effective == get_effective_workspace(w, ws_idx)
        new_default_monitor_idx ==
            IF Unwrap(effective).is_default THEN None
            ELSE Unwrap(effective).monitor_idx
        cleared ==
            [k \in DOMAIN w.pending_workspaces |->
                IF /\ IsSome(new_default_monitor_idx)
                   /\ IsSome(w.pending_workspaces[k])
                   /\ Unwrap(w.pending_workspaces[k]).is_default
                   /\ Unwrap(w.pending_workspaces[k]).monitor_idx
                          = new_default_monitor_idx
                THEN Some([Unwrap(w.pending_workspaces[k]) EXCEPT
                              !.is_default = FALSE])
                ELSE w.pending_workspaces[k]]
    IN  IF ~IsSome(effective) THEN w
        ELSE [w EXCEPT !.pending_workspaces =
                 [cleared EXCEPT ![ws_idx] =
                     Some([Unwrap(effective) EXCEPT
                              !.is_default = IsSome(new_default_monitor_idx)])]]

\* write_ok: std::fs::write succeeds.
save_config(w, write_ok) ==
    IF ~w.needs_save THEN w
    ELSE
    LET w1 == [w EXCEPT !.needs_save = FALSE]
        rule(ws) ==
            [id |-> ws.id,
             monitor |-> IF IsSome(ws.monitor_idx)
                            /\ Unwrap(ws.monitor_idx) < Len(w.monitors)
                         THEN w.monitors[Unwrap(ws.monitor_idx) + 1].name
                         ELSE <<>>,
             is_default |-> ws.is_default,
             is_persistent |-> ws.is_persistent]
        workspace_rules ==
            [i \in 1..Len(w.workspace_assignments) |-> rule(w.workspace_assignments[i])]
    IN  IF w.compositor = "Unknown" THEN w1
        ELSE IF ~write_ok THEN set_error(w1, "Failed to save config")
        ELSE [w1 EXCEPT !.config_file =
                 Some(SavedContent(w.compositor, w.monitors, workspace_rules))]

\* A reset that asks for the file to be saved.
reset_positions_saving(w) ==
    [w EXCEPT !.pending_positions = EmptyPositions,
              !.pending_workspaces = EmptyWorkspaces,
              !.needs_save = TRUE]

reset_positions(w) ==
    [w EXCEPT !.pending_positions = EmptyPositions,
              !.pending_workspaces = EmptyWorkspaces]

select_next_monitor(w) ==
    IF w.monitors = <<>> THEN w
    ELSE [w EXCEPT !.selected_monitor = (@ + 1) % Len(w.monitors)]

select_prev_monitor(w) ==
    IF w.monitors = <<>> THEN w
    ELSE [w EXCEPT !.selected_monitor =
             IF @ = 0 THEN Len(w.monitors) - 1 ELSE @ - 1]

toggle_panel(w) ==
    [w EXCEPT !.panel =
        CASE @ = "Monitor" -> "Mode"
          [] @ = "Mode" -> "Workspace"
          [] @ = "Workspace" -> "Scale"
          [] @ = "Scale" -> "Transform"
          [] @ = "Transform" -> "Monitor"]

\* apply_mode, apply_scale and apply_transform: one command for the selected
\* monitor (kind names it; its payload is not modelled).
apply_selected(w, kind) ==
    IF w.selected_monitor >= Len(w.monitors) THEN [w EXCEPT !.ret = "Ok"]
    ELSE Send(w, [type |-> kind, name |-> w.monitors[w.selected_monitor + 1].name])

\* apply_positions over the keys in the HashMap's order.
RECURSIVE apply_positions(_, _)
apply_positions(w, order) ==
    IF order = <<>> THEN [w EXCEPT !.ret = "Ok"]
    ELSE LET idx == Head(order)
             sent == Send(w, [type |-> "SetPosition",
                              name |-> w.monitors[idx + 1].name,
                              x |-> Unwrap(w.pending_positions[idx])[1],
                              y |-> Unwrap(w.pending_positions[idx])[2]])
         IN  IF idx >= Len(w.monitors) THEN apply_positions(w, Tail(order))
             ELSE IF sent.ret = "Err" THEN sent
             ELSE apply_positions(sent, Tail(order))

\* apply_action leaving the pending positions in the overlay.
keep_pending_positions(w) == w

\* self.pending_positions.clear() of apply_action.
clear_pending_positions(w) == [w EXCEPT !.pending_positions = EmptyPositions]

\* The loop of the Monitor arm: each pending position written into the
\* monitor its key indexes.
merge_pending_positions(w) ==
    [w EXCEPT !.monitors =
        [i \in 1..Len(@) |->
            IF IsSome(w.pending_positions[i - 1])
            THEN [@[i] EXCEPT !.position =
                                  [x |-> Unwrap(w.pending_positions[i - 1])[1],
                                   y |-> Unwrap(w.pending_positions[i - 1])[2]]]
            ELSE @[i]]]

\* The loop of the Workspace arm.
merge_pending_workspaces(w) ==
    [w EXCEPT !.workspace_assignments =
        [i \in 1..Len(@) |->
            IF IsSome(w.pending_workspaces[i - 1])
            THEN [@[i] EXCEPT
                     !.monitor_idx = Unwrap(w.pending_workspaces[i - 1]).monitor_idx,
                     !.is_default = Unwrap(w.pending_workspaces[i - 1]).is_default,
                     !.is_persistent = Unwrap(w.pending_workspaces[i - 1]).is_persistent]
            ELSE @[i]]]

\* self.apply_positions()?; self.pending_positions.clear();
PositionsApplied(positioned) ==
    IF positioned.ret = "Err" THEN positioned
    ELSE clear_pending_positions(positioned)

\* The match of apply_action.  ret is "Err" where `?` returns the error,
\* "Return" where the arm returns Ok(()) before the save, and "Ok" where
\* control reaches the save.  order: the keys of pending_positions in the
\* HashMap's order.
apply_panel(w, order) ==
    CASE w.panel \in {"Mode", "Scale", "Transform"} ->
           apply_selected(w, CASE w.panel = "Mode" -> "SwitchMode"
                               [] w.panel = "Scale" -> "SetScale"
                               [] w.panel = "Transform" -> "SetTransform")
      [] w.panel = "Monitor" ->
           IF Keys(w.pending_positions) = {} THEN [w EXCEPT !.ret = "Return"]
           ELSE PositionsApplied(apply_positions(merge_pending_positions(w), order))
      [] w.panel = "Workspace" ->
           IF Keys(w.pending_workspaces) = {} THEN [w EXCEPT !.ret = "Return"]
           ELSE [merge_pending_workspaces(w) EXCEPT
                    !.pending_workspaces = EmptyWorkspaces, !.ret = "Ok"]

\* What follows the match: self.needs_save = true; self.save_config(); Ok(())
SavedAfter(w, write_ok) ==
    IF w.ret = "Err" THEN w
    ELSE IF w.ret = "Return" THEN [w EXCEPT !.ret = "Ok"]
    ELSE save_config([w EXCEPT !.needs_save = TRUE, !.ret = "Ok"], write_ok)

apply_action(w, order, write_ok) == SavedAfter(apply_panel(w, order), write_ok)

\* previous() and next(): forward is next().
step_selection(w, forward, within) ==
    CASE w.panel = "Monitor" ->
           move_monitor(w, IF forward THEN "Down" ELSE "Up", within)
      [] w.panel = "Workspace" ->
           LET len == Len(w.workspace_assignments)
           IN  IF len = 0 THEN w
               ELSE [w EXCEPT !.workspace_state =
                        IF forward THEN (@ + 1) % len
                        ELSE IF @ = 0 THEN len - 1 ELSE @ - 1]
      [] OTHER -> w

nav_left(w, within) ==
    CASE w.panel = "Monitor" -> move_monitor(w, "Left", within)
      [] w.panel = "Workspace" -> cycle_workspace_monitor(w, FALSE)
      [] OTHER -> w

nav_right(w, within) ==
    CASE w.panel = "Monitor" -> move_monitor(w, "Right", within)
      [] w.panel = "Workspace" -> cycle_workspace_monitor(w, TRUE)
      [] OTHER -> w

(***************************************************************************)
(* The outputs the model draws from.                                       *)
(***************************************************************************)
Mode(width, height) ==
    [width |-> width, height |-> height, refresh_rate |-> 60,
     is_current |-> TRUE, preferred |-> TRUE]

\* An output as the protocol reports it.  D1 is 2x1; D2 is 2x1 turned a
\* quarter, so 1x2 on the layout; H1 is 1x1 and has no current mode.
Output(name, enabled, x, y) ==
    [name |-> name, enabled |-> enabled, position |-> [x |-> x, y |-> y],
     modes |-> IF name = <<"H", "1">>
               THEN <<[Mode(1, 1) EXCEPT !.is_current = FALSE]>>
               ELSE <<Mode(2, 1)>>,
     resolution |-> [width |-> 0, height |-> 0],
     scale |-> IF name = <<"D", "2">> THEN 1500 ELSE 1000,
     transform |-> IF name = <<"D", "2">> THEN "Rotate90" ELSE "Normal"]

OutputNames == <<<<"D", "1">>, <<"D", "2">>, <<"H", "1">>>>

Directions == {"Left", "Right", "Up", "Down"}

\* All orders in which a HashMap may yield the keys S.
Orders(S) ==
    {o \in [1..Cardinality(S) -> S] : \A i, j \in DOMAIN o : i # j => o[i] # o[j]}

\* The pending positions and the positions in the queued commands stay within
\* MaxCoord of the origin.
InCoordBounds(w) ==
    /\ \A k \in Keys(w.pending_positions) :
          /\ Unwrap(w.pending_positions[k])[1] <= MaxCoord
          /\ Unwrap(w.pending_positions[k])[2] <= MaxCoord
    /\ \A i \in 1..Len(w.commands) :
          LET command == w.commands[i]
          IN  /\ command.type = "Toggle" /\ IsSome(command.position) =>
                    /\ Abs(Unwrap(command.position)[1]) <= MaxCoord
                    /\ Abs(Unwrap(command.position)[2]) <= MaxCoord
              /\ command.type = "SetPosition" =>
                    Abs(command.x) <= MaxCoord /\ Abs(command.y) <= MaxCoord

(***************************************************************************)
(* The interactive loop (tui_loop, src/tui/ui.rs).                         *)
(***************************************************************************)
\* One match arm of the drain loop.  order is used by Removed only.
ApplyEvent(w, event, order) ==
    CASE event.type = "InitialState" -> set_monitors(w, event.monitors)
      [] event.type = "Changed" -> update_monitor(w, event.monitor)
      [] event.type = "Removed" -> remove_monitor(w, event.name, order)
      [] event.type = "ActionFailed" ->
           set_error([w EXCEPT !.needs_save = FALSE], "Action failed")

\* while let Ok(event) = wlx_events.try_recv(): one received event.
DrainEvent ==
    /\ loop_pc = "drain"
    /\ events # <<>>
    /\ LET event == Head(events)
           at == IF event.type = "Removed"
                 THEN NamePosition(monitors, event.name)
                 ELSE None
           left == IF IsSome(at)
                   THEN Keys(pending_positions) \ {Unwrap(at)}
                   ELSE {}
       IN  \E order \in Orders(left) : Becomes(ApplyEvent(World, event, order))
    /\ events' = Tail(events)
    /\ had_events' = TRUE
    /\ UNCHANGED <<receiver_alive, outputs, hotplugs_left, loop_pc, last_key, keys_left, fnVars, setupVars, chanVars, asked>>

\* The drain given up after one try_recv, whatever is left in the channel.
DrainOnce ==
    /\ loop_pc = "drain"
    /\ had_events \/ events = <<>>
    /\ \E write_ok \in (IF had_events /\ needs_save THEN BOOLEAN ELSE {TRUE}) :
          Becomes(IF had_events THEN save_config(World, write_ok) ELSE World)
    /\ had_events' = FALSE
    /\ loop_pc' = "key"
    /\ last_key' = "none"
    /\ UNCHANGED <<envVars, keys_left, fnVars, setupVars, chanVars, asked>>

\* try_recv finds the channel empty: save_config if had_events, then render.
DrainDone ==
    /\ loop_pc = "drain"
    /\ events = <<>>
    /\ \E write_ok \in (IF had_events /\ needs_save THEN BOOLEAN ELSE {TRUE}) :
          Becomes(IF had_events THEN save_config(World, write_ok) ELSE World)
    /\ had_events' = FALSE
    /\ loop_pc' = "key"
    /\ last_key' = "none"
    /\ UNCHANGED <<envVars, keys_left, fnVars, setupVars, chanVars, asked>>

\* event::poll times out, or the event read is not a key.
NoKey ==
    /\ loop_pc = "key"
    /\ loop_pc' = "drain"
    /\ UNCHANGED <<appVars, envVars, had_events, last_key, keys_left, fnVars, setupVars, chanVars, asked>>

\* The user presses a key: one of the keys_left, when those are counted.
KeyComes == keys_left # Some(0)

Pressed == IF IsSome(keys_left) THEN Some(Unwrap(keys_left) - 1) ELSE None

\* A key is read: the error is cleared and the key's arm has led to w.
\* The output the confirmation is asked for: the one selected when the flag
\* was raised, for as long as the flag stays up.
Asked(w) ==
    IF ~w.pending_last_toggle_monitor THEN None
    ELSE IF pending_last_toggle_monitor THEN asked
    ELSE Some(monitors[selected_monitor + 1].name)

KeyStep(key, w) ==
    /\ KeyComes
    /\ Len(w.commands) <= CommandCap
    /\ InCoordBounds(w)
    /\ Becomes(w)
    /\ last_key' = key
    /\ loop_pc' = "drain"
    /\ keys_left' = Pressed
    /\ asked' = Asked(w)
    /\ UNCHANGED <<envVars, had_events, fnVars, setupVars, chanVars>>

Reading == loop_pc = "key"

\* The Result dropped: let _ = r;
Unreported(r, msg) == r

\* if let Err(_) = r { app.set_error(msg) }
OrError(r, msg) == IF r.ret = "Err" THEN set_error(r, msg) ELSE r

\* Result of toggle_monitor as the loop handles it.
ToggleOrError(w) == OrError(toggle_monitor(w), "Failed to toggle monitor")

\* While the confirmation flag is raised: 'y'.
KeyConfirm ==
    /\ Reading /\ pending_last_toggle_monitor
    /\ KeyStep("y", ToggleOrError(clear_error(World)))

\* While the confirmation flag is raised: any other key.
KeyDismiss ==
    /\ Reading /\ pending_last_toggle_monitor
    /\ KeyStep("other", dismiss_warning(clear_error(World)))

KeyQuit ==
    /\ Reading /\ ~pending_last_toggle_monitor
    /\ KeyComes
    /\ Becomes(reset_positions(clear_error(World)))
    /\ last_key' = "q"
    /\ loop_pc' = "quit"
    /\ keys_left' = Pressed
    /\ UNCHANGED <<envVars, had_events, fnVars, setupVars, chanVars, asked>>

\* Up, Down, Left, Right in the Monitor panel: move_monitor.
KeyMove ==
    /\ Reading /\ ~pending_last_toggle_monitor
    /\ panel = "Monitor"
    /\ \E direction \in Directions, within \in BOOLEAN :
          /\ within => move_repeat_count < MaxRepeat
          /\ KeyStep(direction,
                CASE direction = "Up" -> step_selection(clear_error(World), FALSE, within)
                  [] direction = "Down" -> step_selection(clear_error(World), TRUE, within)
                  [] direction = "Left" -> nav_left(clear_error(World), within)
                  [] direction = "Right" -> nav_right(clear_error(World), within))

\* Up, Down, Left, Right in any other panel.
KeyNavigate ==
    /\ Reading /\ ~pending_last_toggle_monitor
    /\ panel # "Monitor"
    /\ \E direction \in Directions :
          KeyStep(direction,
             CASE direction = "Up" -> step_selection(clear_error(World), FALSE, FALSE)
               [] direction = "Down" -> step_selection(clear_error(World), TRUE, FALSE)
               [] direction = "Left" -> nav_left(clear_error(World), FALSE)
               [] direction = "Right" -> nav_right(clear_error(World), FALSE))

KeyTab ==
    /\ Reading /\ ~pending_last_toggle_monitor
    /\ KeyStep("Tab", toggle_panel(clear_error(World)))

KeyToggle ==
    /\ Reading /\ ~pending_last_toggle_monitor
    /\ KeyStep("t", ToggleOrError(clear_error(World)))

KeyReset ==
    /\ Reading /\ ~pending_last_toggle_monitor
    /\ KeyStep("r", reset_positions(clear_error(World)))

KeySelectNext ==
    /\ Reading /\ ~pending_last_toggle_monitor
    /\ KeyStep("]", select_next_monitor(clear_error(World)))

KeySelectPrev ==
    /\ Reading /\ ~pending_last_toggle_monitor
    /\ KeyStep("[", select_prev_monitor(clear_error(World)))

KeyDefault ==
    /\ Reading /\ ~pending_last_toggle_monitor
    /\ KeyStep("d", IF panel = "Workspace" /\ supports_workspace_defaults(compositor)
                    THEN toggle_default(clear_error(World))
                    ELSE clear_error(World))

KeyPersistent ==
    /\ Reading /\ ~pending_last_toggle_monitor
    /\ KeyStep("p", IF panel = "Workspace" /\ supports_workspace_defaults(compositor)
                    THEN toggle_persistent(clear_error(World))
                    ELSE clear_error(World))

KeyEnter ==
    /\ Reading /\ ~pending_last_toggle_monitor
    /\ \E order \in Orders(IF panel = "Monitor" THEN Keys(pending_positions) ELSE {}),
          write_ok \in BOOLEAN :
          KeyStep("Enter", OrError(apply_action(clear_error(World), order, write_ok),
                                   "Failed to apply"))

\* Any key with no arm, and '+' and '-' (zoom and scale are not modelled).
KeyOther ==
    /\ Reading /\ ~pending_last_toggle_monitor
    /\ KeyStep("other", clear_error(World))

(***************************************************************************)
(* The protocol thread: it answers commands, reports hot-plugs and         *)
(* resyncs, and may exit.  The engine sees it only through the channels.   *)
(***************************************************************************)
\* The output a command leaves behind.
Commanded(output, command) ==
    IF command.type = "Toggle"
    THEN [output EXCEPT
             !.enabled = ~@,
             !.position = IF IsSome(command.position)
                          THEN [x |-> Unwrap(command.position)[1],
                                y |-> Unwrap(command.position)[2]]
                          ELSE @]
    ELSE IF command.type = "SetPosition"
    THEN [output EXCEPT !.position = [x |-> command.x, y |-> command.y]]
    ELSE output

\* The command is applied and reported by a Changed event.
ProtocolApply ==
    /\ receiver_alive
    /\ commands # <<>>
    /\ Len(events) < EventCap
    /\ IsSome(NamePosition(outputs, Head(commands).name))
    /\ LET i == Unwrap(NamePosition(outputs, Head(commands).name)) + 1
           changed == Commanded(outputs[i], Head(commands))
       IN  /\ outputs' = [outputs EXCEPT ![i] = changed]
           /\ events' = Append(events, [type |-> "Changed", monitor |-> changed])
    /\ Becomes([World EXCEPT !.commands = Tail(@)])
    /\ UNCHANGED <<receiver_alive, hotplugs_left, loopVars, fnVars, setupVars, chanVars, asked>>

\* The command fails and is reported by an ActionFailed event.
ProtocolFail ==
    /\ receiver_alive
    /\ commands # <<>>
    /\ Len(events) < EventCap
    /\ events' = Append(events, [type |-> "ActionFailed"])
    /\ Becomes([World EXCEPT !.commands = Tail(@)])
    /\ UNCHANGED <<receiver_alive, outputs, hotplugs_left, loopVars, fnVars, setupVars, chanVars, asked>>

HotplugComes == hotplugs_left # Some(0)

Plugged == IF IsSome(hotplugs_left) THEN Some(Unwrap(hotplugs_left) - 1) ELSE None

PlugUpTo(cap) ==
    /\ receiver_alive
    /\ HotplugComes
    /\ Len(events) < cap
    /\ Len(outputs) < MaxMonitors
    /\ \E n \in 1..Len(OutputNames), enabled \in BOOLEAN :
          /\ ~IsSome(NamePosition(outputs, OutputNames[n]))
          /\ LET new == Output(OutputNames[n], enabled, 0, 0)
             IN  /\ outputs' = Append(outputs, new)
                 /\ events' = Append(events, [type |-> "Changed", monitor |-> new])
    /\ hotplugs_left' = Plugged
    /\ UNCHANGED <<appVars, receiver_alive, loopVars, fnVars, setupVars, chanVars, asked>>

Plug == PlugUpTo(EventCap)

UnplugUpTo(cap) ==
    /\ receiver_alive
    /\ HotplugComes
    /\ Len(events) < cap
    /\ \E i \in 1..Len(outputs) :
          /\ outputs' = SelectSeq(outputs, LAMBDA m : m.name # outputs[i].name)
          /\ events' = Append(events, [type |-> "Removed", name |-> outputs[i].name])
    /\ hotplugs_left' = Plugged
    /\ UNCHANGED <<appVars, receiver_alive, loopVars, fnVars, setupVars, chanVars, asked>>

Unplug == UnplugUpTo(EventCap)

\* The outputs are enumerated afresh and reported as a whole.
Resync(layouts) ==
    /\ receiver_alive
    /\ HotplugComes
    /\ Len(events) < EventCap
    /\ \E list \in layouts :
          /\ outputs' = list
          /\ events' = Append(events, [type |-> "InitialState", monitors |-> list])
    /\ hotplugs_left' = Plugged
    /\ UNCHANGED <<appVars, receiver_alive, loopVars, fnVars, setupVars, chanVars, asked>>

ProtocolExit ==
    /\ receiver_alive
    /\ receiver_alive' = FALSE
    /\ UNCHANGED <<appVars, events, outputs, hotplugs_left, loopVars, fnVars, setupVars, chanVars, asked>>

(***************************************************************************)
(* The initial state: App::new, with the protocol thread's first event,    *)
(* InitialState, in the event channel.                                     *)
(***************************************************************************)
D1 == OutputNames[1]
D2 == OutputNames[2]
H1 == OutputNames[3]

Layouts ==
    {<<Output(D1, TRUE, 0, 0)>>,
     <<Output(D1, TRUE, 0, 0), Output(D2, TRUE, 2, 0)>>,
     <<Output(D1, TRUE, 0, 0), Output(D2, FALSE, 2, 0)>>,
     <<Output(D1, TRUE, 0, 0), Output(D2, TRUE, 2, 0), Output(H1, TRUE, 3, 0)>>}

Rule(id, monitor, is_default, is_persistent) ==
    [id |-> id, monitor |-> monitor, is_default |-> is_default,
     is_persistent |-> is_persistent]

\* What the config file may hold when the program starts: nothing, or what
\* an earlier session saved.
SavedFiles(c) ==
    IF c \in {"Hyprland", "Sway", "River"}
    THEN {Some(SavedContent(c, <<Output(D1, TRUE, 0, 0), Output(D2, TRUE, 0, 0)>>,
                            <<Rule(1, D1, TRUE, FALSE), Rule(2, D2, FALSE, TRUE)>>))}
    ELSE {}

\* saved: what the config file may hold when the program starts.
AppInitWith(compositors, layouts, keys, hotplugs, saved) ==
    /\ compositor \in compositors
    /\ config_file \in saved
    /\ initial_workspaces = Some(parse_workspace_config(compositor, config_file))
    /\ workspace_assignments =
           [i \in 1..MaxWorkspaces |->
               [id |-> i, monitor_idx |-> None, is_default |-> FALSE,
                is_persistent |-> FALSE]]
    /\ monitors = <<>>
    /\ selected_monitor = 0
    /\ panel = "Monitor"
    /\ needs_save = FALSE
    /\ pending_positions = EmptyPositions
    /\ pending_workspaces = EmptyWorkspaces
    /\ workspace_state = 0
    /\ pending_last_toggle_monitor = FALSE
    /\ error_message = None
    /\ move_repeat_count = 0
    /\ last_move_direction = None
    /\ commands = <<>>
    /\ receiver_alive = TRUE
    /\ outputs \in layouts
    /\ events = <<[type |-> "InitialState", monitors |-> outputs]>>
    /\ loop_pc = "drain"
    /\ had_events = FALSE
    /\ last_key = "none"
    /\ keys_left = keys
    /\ hotplugs_left = hotplugs
    /\ sending = <<>>
    /\ delivering = <<>>
    /\ asked = None

AppInit(compositors, layouts, keys, hotplugs) ==
    AppInitWith(compositors, layouts, keys, hotplugs,
                {None} \cup SavedFiles(compositor))

\* No pure function is under check.
FnIdle == fn_in = None /\ fn_out = None

\* First-time setup is over and its files are out of view.
SetupIdle == files = <<>> /\ setup = None

Init ==
    /\ AppInit({"Hyprland", "Sway", "River", "Unknown"}, Layouts,
               Some(MaxKeys), Some(MaxHotplugs))
    /\ FnIdle /\ SetupIdle

Next ==
    \/ DrainEvent
    \/ DrainDone
    \/ NoKey
    \/ KeyConfirm
    \/ KeyDismiss
    \/ KeyQuit
    \/ KeyMove
    \/ KeyNavigate
    \/ KeyTab
    \/ KeyToggle
    \/ KeyReset
    \/ KeySelectNext
    \/ KeySelectPrev
    \/ KeyDefault
    \/ KeyPersistent
    \/ KeyEnter
    \/ KeyOther
    \/ ProtocolApply
    \/ ProtocolFail
    \/ Plug
    \/ Unplug
    \/ Resync(Layouts)
    \/ ProtocolExit

Spec == Init /\ [][Next]_vars

(***************************************************************************)
(* Arranging: moves and toggles, each command applied by the protocol.     *)
(***************************************************************************)
LayoutKeys == 4

InitLayout == AppInit({"Hyprland"}, Layouts, Some(LayoutKeys), Some(0)) /\ FnIdle /\ SetupIdle

NextLayout ==
    \/ DrainEvent
    \/ DrainDone
    \/ KeyMove
    \/ KeySelectNext
    \/ KeyToggle
    \/ KeyConfirm
    \/ KeyDismiss
    \/ ProtocolApply

SpecLayout == InitLayout /\ [][NextLayout]_vars

\* Both channels are empty: every command has been applied and reported.
Settled == commands = <<>> /\ events = <<>>

\* The rectangles of the enabled outputs i and j, at their effective
\* positions and with their transform-adjusted sizes, strictly intersect.
Intersect(i, j) ==
    /\ monitors[i + 1].enabled
    /\ monitors[j + 1].enabled
    /\ RectsOverlap(display_position(World, i), effective_dimensions(monitors[i + 1]),
                    display_position(World, j), effective_dimensions(monitors[j + 1]))

\* C1: starting from an arrangement without overlap, after any sequence of
\* moves and toggles, once the protocol has applied every toggle, no two
\* enabled outputs' rectangles (effective position, transform-adjusted size)
\* strictly intersect.
C1_NoOverlap ==
    Settled =>
        \A i, j \in 0..(Len(monitors) - 1) : i < j => ~Intersect(i, j)

(***************************************************************************)
(* The whole key map, with the protocol answering, failing or exiting.     *)
(***************************************************************************)
ConfirmKeys == 3

InitConfirm == AppInit({"Hyprland"}, Layouts, Some(ConfirmKeys), Some(0)) /\ FnIdle /\ SetupIdle

NextConfirm ==
    \/ DrainEvent
    \/ DrainDone
    \/ NoKey
    \/ KeyConfirm
    \/ KeyDismiss
    \/ KeyQuit
    \/ KeyMove
    \/ KeyNavigate
    \/ KeyTab
    \/ KeyToggle
    \/ KeyReset
    \/ KeySelectNext
    \/ KeySelectPrev
    \/ KeyDefault
    \/ KeyPersistent
    \/ KeyEnter
    \/ KeyOther
    \/ ProtocolApply
    \/ ProtocolFail
    \/ ProtocolExit

SpecConfirm == InitConfirm /\ [][NextConfirm]_vars

\* The step handles a key: last_key' is that key.
KeyHandled == loop_pc = "key" /\ last_key' # "none"

\* name is, in the engine's list, enabled and the only enabled output.
SoleEnabled(name) ==
    /\ enabled_count(World) = 1
    /\ \E i \in 1..Len(monitors) : monitors[i].name = name /\ monitors[i].enabled

\* The selected output is enabled and the only enabled output.
SelectedIsSoleEnabled ==
    /\ selected_monitor < Len(monitors)
    /\ SoleEnabled(monitors[selected_monitor + 1].name)

\* C3: toggle_monitor on a selected output that is the only enabled one sends
\* no Toggle command and raises the confirmation flag; while the flag is
\* raised any key other than 'y' lowers it and sends nothing; and a Toggle
\* command for the only enabled output is sent only by the key 'y' handled
\* while the flag is raised.
C3_ConfirmSoleDisable ==
    [][/\ (KeyHandled /\ last_key' = "t" /\ SelectedIsSoleEnabled)
            => (commands' = commands /\ pending_last_toggle_monitor')
       /\ (KeyHandled /\ pending_last_toggle_monitor /\ last_key' # "y")
            => (commands' = commands /\ ~pending_last_toggle_monitor')
       /\ \A k \in 1..Len(commands') :
             (/\ k > Len(commands)
              /\ commands'[k].type = "Toggle"
              /\ SoleEnabled(commands'[k].name))
                => (KeyHandled /\ pending_last_toggle_monitor /\ last_key' = "y")
      ]_vars

\* The key 'y' has just sent the Toggle that disables the only enabled output.
C3_Witness ==
    /\ last_key = "y"
    /\ ~pending_last_toggle_monitor
    /\ commands # <<>>
    /\ commands[Len(commands)].type = "Toggle"
    /\ commands[Len(commands)].position = None
    /\ SoleEnabled(commands[Len(commands)].name)

(***************************************************************************)
(* Hot-plugging: outputs come, go and are enumerated afresh while the user *)
(* arranges.                                                               *)
(***************************************************************************)
HotplugKeys == 2

InitHotplug ==
    /\ AppInit({"Hyprland"}, Layouts, Some(HotplugKeys), Some(MaxHotplugs))
    /\ FnIdle /\ SetupIdle

NextHotplug ==
    \/ DrainEvent
    \/ DrainDone
    \/ KeyMove
    \/ KeySelectNext
    \/ KeyReset
    \/ KeyEnter
    \/ ProtocolApply
    \/ Plug
    \/ Unplug
    \/ Resync(Layouts)

SpecHotplug == InitHotplug /\ [][NextHotplug]_vars

\* The step is one arm of the drain loop, applied to the event at the head.
Drained == loop_pc = "drain" /\ events # <<>> /\ events' = Tail(events)

\* C2: after every change of the output list (set_monitors, update_monitor,
\* remove_monitor) every committed workspace assignment's monitor_idx is None
\* or an index smaller than the length of the output list.
C2_WorkspaceIndexValid ==
    [][(Drained /\ Head(events).type \in {"InitialState", "Changed", "Removed"})
          => \A i \in 1..Len(workspace_assignments') :
                \/ workspace_assignments'[i].monitor_idx = None
                \/ Unwrap(workspace_assignments'[i].monitor_idx) < Len(monitors')
      ]_vars

\* The index of the output the Removed event at the head names.
RemovedIdx == NamePosition(monitors, Head(events).name)

\* C9: remove_monitor of the output at index i keeps every other output's
\* pending position: the entry at key k > i is found at key k-1, the entry
\* at key k < i is unchanged, only the entry at key i is dropped, whatever
\* the order the keys are visited in.
C9_RemoveKeepsPending ==
    [][(Drained /\ Head(events).type = "Removed" /\ IsSome(RemovedIdx))
          => \A k \in MonitorKeys :
                pending_positions'[k] =
                    IF k < Unwrap(RemovedIdx) THEN pending_positions[k]
                    ELSE IF k + 1 \in MonitorKeys THEN pending_positions[k + 1]
                    ELSE None
      ]_vars

\* C10: in every reachable state every key of the pending-position overlay is
\* a valid index into the output list.
C10_PendingKeysValid ==
    \A k \in Keys(pending_positions) : k < Len(monitors)

(***************************************************************************)
(* Assigning workspaces: the Workspace panel's keys and the commit.        *)
(***************************************************************************)
AssignKeys == 6

InitWorkspace ==
    /\ AppInit({"Hyprland"}, Layouts, Some(AssignKeys), Some(0))
    /\ FnIdle /\ SetupIdle

NextWorkspace ==
    \/ DrainEvent
    \/ DrainDone
    \/ KeyTab
    \/ KeyNavigate
    \/ KeyDefault
    \/ KeyPersistent
    \/ KeyEnter

SpecWorkspace == InitWorkspace /\ [][NextWorkspace]_vars

\* The workspaces whose effective assignment defaults to the output m.
DefaultsTo(m) ==
    {i \in 0..(Len(workspace_assignments) - 1) :
        /\ Unwrap(get_effective_workspace(World, i)).is_default
        /\ Unwrap(get_effective_workspace(World, i)).monitor_idx = Some(m)}

\* C6: starting from at most one default per output, after any sequence of
\* cycle_workspace_monitor, toggle_default, toggle_persistent and commits, at
\* most one workspace's effective assignment (pending if present, else
\* committed) is the default of any one output.
C6_OneDefaultPerOutput ==
    \A m \in MonitorKeys : Cardinality(DefaultsTo(m)) <= 1

(***************************************************************************)
(* Committing: moves and workspace assignments, then Enter in any panel.   *)
(***************************************************************************)
CommitKeys == 5

\* Two outputs, the second enabled or not.
CommitLayouts ==
    {<<Output(D1, TRUE, 0, 0), Output(D2, TRUE, 2, 0)>>,
     <<Output(D1, TRUE, 0, 0), Output(D2, FALSE, 2, 0)>>}

InitCommit ==
    /\ AppInit({"Hyprland"}, CommitLayouts, Some(CommitKeys), Some(0))
    /\ config_file = None
    /\ FnIdle /\ SetupIdle

NextCommit ==
    \/ DrainEvent
    \/ DrainDone
    \/ KeyMove
    \/ KeyTab
    \/ KeyNavigate
    \/ KeyEnter
    \/ ProtocolApply
    \/ ProtocolExit

SpecCommit == InitCommit /\ [][NextCommit]_vars

\* The step handles Enter and apply_action returns Ok.
Committed ==
    KeyHandled /\ last_key' = "Enter" /\ error_message' # Some("Failed to apply")

\* Every pending position whose key indexes an output is that output's
\* committed position after the step.
PositionsMerged ==
    \A k \in Keys(pending_positions) :
        k < Len(monitors) =>
            /\ k < Len(monitors')
            /\ monitors'[k + 1].position.x = Unwrap(pending_positions[k])[1]
            /\ monitors'[k + 1].position.y = Unwrap(pending_positions[k])[2]

\* Every pending workspace assignment whose key indexes a workspace is that
\* workspace's committed assignment after the step.
WorkspacesMerged ==
    \A k \in Keys(pending_workspaces) :
        k < Len(workspace_assignments) =>
            LET ws == Unwrap(pending_workspaces[k])
                now == workspace_assignments'[k + 1]
            IN  /\ now.monitor_idx = ws.monitor_idx
                /\ now.is_default = ws.is_default
                /\ now.is_persistent = ws.is_persistent

C8_WriteFailureKeepsPending ==
    [][(KeyHandled /\ last_key' = "Enter"
          /\ error_message' = Some("Failed to save config"))
          => /\ pending_positions' = pending_positions
             /\ pending_workspaces' = pending_workspaces
      ]_vars

(***************************************************************************)
(* parse_hyprland_position over sequences of monitor directives.           *)
(***************************************************************************)
MaxDirectives == 3

\* The positions the directives and the arrangements are drawn from.
Positions == {<<0, 0>>, <<-12, 7>>, <<34, 0>>}

\* A directive: the output it names, and disable or a position.
Directives ==
    [name : {D1, D2}, disable : {TRUE}, position : {<<0, 0>>}]
        \cup [name : {D1, D2}, disable : {FALSE}, position : Positions]

RECURSIVE SeqsUpTo(_, _)
SeqsUpTo(S, n) ==
    IF n = 0 THEN {<<>>}
    ELSE LET shorter == SeqsUpTo(S, n - 1)
         IN  shorter \cup {Append(q, e) : q \in {p \in shorter : Len(p) = n - 1},
                                          e \in S}

\* The directive as a line of the file, spaced as the formatter writes it or
\* with no blank around '=' and ','.
DirectiveLine(d, compact) ==
    LET eq == IF compact THEN <<"=">> ELSE <<" ", "=", " ">>
        comma == IF compact THEN <<",">> ELSE <<",", " ">>
    IN  <<"m", "o", "n", "i", "t", "o", "r">> \o eq \o d.name \o comma \o
        (IF d.disable
         THEN <<"d", "i", "s", "a", "b", "l", "e">>
         ELSE <<"2", "x", "1", "@", "6", "0">> \o comma \o
              IntToText(d.position[1]) \o <<"x">> \o IntToText(d.position[2]) \o
              comma \o <<"1">>)

DirectiveText(ds, compact) ==
    FlattenSeq([i \in 1..Len(ds) |-> DirectiveLine(ds[i], compact) \o <<"\n">>])

InitParse ==
    /\ AppInit({"Hyprland"}, {<<>>}, Some(0), Some(0))
    /\ config_file = None
    /\ fn_in \in {Some([directives |-> ds, compact |-> c, monitor_name |-> D1]) :
                     ds \in SeqsUpTo(Directives, MaxDirectives), c \in BOOLEAN}
    /\ fn_out = None
    /\ SetupIdle

ParseSaved ==
    /\ fn_out = None
    /\ fn_out' = Some(parse_hyprland_position(
                          DirectiveText(Unwrap(fn_in).directives, Unwrap(fn_in).compact),
                          Unwrap(fn_in).monitor_name))
    /\ UNCHANGED <<appVars, envVars, loopVars, fn_in, setupVars, chanVars, asked>>

NextParse == ParseSaved

SpecParse == InitParse /\ [][NextParse]_vars

\* The directives of ds for name that are not disable directives.
Positioned(ds, name) ==
    {i \in 1..Len(ds) : ds[i].name = name /\ ~ds[i].disable}

\* C4: for every sequence of Hyprland monitor directives and every output
\* name, parse_hyprland_position returns the position of the last directive
\* for the name that is not a disable directive, wherever the disable
\* directives for the name stand, and None only when there is no such
\* directive.
C4_LastPositionedWins ==
    IsSome(fn_out) =>
        LET ds == Unwrap(fn_in).directives
            at == Positioned(ds, Unwrap(fn_in).monitor_name)
        IN  IF at = {}
            THEN Unwrap(fn_out) = None
            ELSE Unwrap(fn_out) = Some([x |-> ds[SetMax(at)].position[1],
                                        y |-> ds[SetMax(at)].position[2]])

\* A position is parsed although a disable directive for the name follows
\* the last positioned one, and another precedes it.
C4_Witness ==
    /\ IsSome(fn_out)
    /\ IsSome(Unwrap(fn_out))
    /\ LET ds == Unwrap(fn_in).directives
           name == Unwrap(fn_in).monitor_name
       IN  /\ Len(ds) = 3
           /\ ds[1].name = name /\ ds[1].disable
           /\ ds[2].name = name /\ ~ds[2].disable /\ ds[2].position[1] < 0
           /\ ds[3].name = name /\ ds[3].disable

(***************************************************************************)
(* Saving an arrangement and reading the saved positions back.             *)
(***************************************************************************)
\* The arrangements of the first n outputs, each enabled or not and at one
\* of Positions.
RECURSIVE Arrangements(_)
Arrangements(n) ==
    IF n = 0 THEN {<<>>}
    ELSE {Append(ms, Output(OutputNames[n], enabled, pos[1], pos[2])) :
             ms \in Arrangements(n - 1), enabled \in BOOLEAN, pos \in Positions}

MaxArranged == IF MaxMonitors < Len(OutputNames) THEN MaxMonitors ELSE Len(OutputNames)

\* The workspace rules save_config derives: none, or one per workspace.
RuleLists == {<<>>, <<Rule(1, D1, TRUE, FALSE), Rule(2, <<>>, FALSE, TRUE)>>}

InitRoundTrip ==
    /\ AppInit({"Hyprland", "Sway", "River"}, {<<>>}, Some(0), Some(0))
    /\ config_file = None
    /\ fn_in \in {Some([monitors |-> ms, workspaces |-> ws]) :
                     ms \in UNION {Arrangements(n) : n \in 1..MaxArranged},
                     ws \in RuleLists}
    /\ fn_out = None
    /\ SetupIdle

\* save_monitor_config writes the file; get_position reads each output's
\* saved position from it.
SaveAndRead ==
    /\ fn_out = None
    /\ LET ms == Unwrap(fn_in).monitors
           file == Some(SavedContent(compositor, ms, Unwrap(fn_in).workspaces))
       IN  fn_out' = Some([i \in 1..Len(ms) |-> get_position(compositor, file, ms[i].name)])
    /\ UNCHANGED <<appVars, envVars, loopVars, fn_in, setupVars, chanVars, asked>>

NextRoundTrip == SaveAndRead

SpecRoundTrip == InitRoundTrip /\ [][NextRoundTrip]_vars

\* The saved position read back for every enabled output is its committed
\* position.
ReadsBackCommitted ==
    \A i \in 1..Len(Unwrap(fn_in).monitors) :
        Unwrap(fn_in).monitors[i].enabled =>
            Unwrap(fn_out)[i] = Some(Unwrap(fn_in).monitors[i].position)

\* C5 as stated: for every arrangement, formatting it in its compositor's
\* dialect and parsing the saved position of each enabled output from the
\* text returns that output's committed (x, y), negative coordinates
\* included.
C5_RoundTrip == IsSome(fn_out) => ReadsBackCommitted

\* C5 amended: the same, for the Hyprland and Sway dialects.
C5_RoundTripParsedDialects ==
    (IsSome(fn_out) /\ compositor \in {"Hyprland", "Sway"}) => ReadsBackCommitted

\* Three outputs saved in the Hyprland dialect, an enabled one at negative x
\* after a disabled one, and the positions read back.
C5_Witness ==
    /\ IsSome(fn_out)
    /\ compositor = "Hyprland"
    /\ Len(Unwrap(fn_in).monitors) = 3
    /\ ~Unwrap(fn_in).monitors[1].enabled
    /\ Unwrap(fn_in).monitors[2].enabled
    /\ Unwrap(fn_in).monitors[2].position.x < 0
    /\ Unwrap(fn_out)[2] = Some(Unwrap(fn_in).monitors[2].position)

(***************************************************************************)
(* Resyncs while workspace assignments are pending: the Workspace panel's  *)
(* keys and full enumerations of the outputs by the protocol thread.       *)
(***************************************************************************)
ResyncKeys == 3

InitResync ==
    /\ AppInit({"Hyprland"}, Layouts, Some(ResyncKeys), Some(MaxHotplugs))
    /\ FnIdle /\ SetupIdle

NextResync ==
    \/ DrainEvent
    \/ DrainDone
    \/ KeyTab
    \/ KeyNavigate
    \/ Resync(Layouts)

SpecResync == InitResync /\ [][NextResync]_vars

\* C11: after set_monitors(list) no pending workspace assignment of the
\* overlay references an output index greater than or equal to the length of
\* the new list.
C11_PendingWorkspacesResolved ==
    [][(Drained /\ Head(events).type = "InitialState")
          => \A k \in Keys(pending_workspaces') :
                \/ Unwrap(pending_workspaces'[k]).monitor_idx = None
                \/ Unwrap(Unwrap(pending_workspaces'[k]).monitor_idx) < Len(monitors')
      ]_vars

(***************************************************************************)
(* Enabling outputs whose positions the config file has saved.             *)
(***************************************************************************)
EnableKeys == 3

\* The positions the file has saved for D1 and D2.
SavedSpots == {<<0, 0>>, <<2, 0>>, <<1, -1>>, <<0, -1>>, <<-1, 1>>}

\* The file an earlier session saved, in the dialect of the compositor c.
EnableFiles(c) ==
    {Some(SavedContent(c, <<Output(D1, TRUE, p[1], p[2]),
                            Output(D2, TRUE, q[1], q[2]),
                            Output(H1, TRUE, 3, 0)>>, <<>>)) :
        p \in SavedSpots, q \in SavedSpots}

InitEnable ==
    /\ AppInitWith({"Hyprland", "Sway"}, Layouts, Some(EnableKeys), Some(0),
                   EnableFiles(compositor))
    /\ FnIdle /\ SetupIdle

NextEnable ==
    \/ DrainEvent
    \/ DrainDone
    \/ KeySelectNext
    \/ KeyToggle
    \/ KeyConfirm
    \/ KeyDismiss
    \/ ProtocolApply

SpecEnable == InitEnable /\ [][NextEnable]_vars

\* The commands the step has sent, as indices into commands'.
SentNow == {k \in 1..Len(commands') : k > Len(commands)}

\* The command enables an output: a Toggle that carries a position.
Enables(command) == command.type = "Toggle" /\ IsSome(command.position)

\* What the config file has saved for name, as a position.
SavedSpot(name) ==
    LET saved == get_position(compositor, config_file, name)
    IN  IF IsSome(saved) THEN Some(<<Unwrap(saved).x, Unwrap(saved).y>>) ELSE None

\* The transform-adjusted size of the output called name.
SizeOf(name) ==
    effective_dimensions(monitors[Unwrap(NamePosition(monitors, name)) + 1])

\* The enabled outputs other than name, as indices into monitors.
Others(name) ==
    {i \in 1..Len(monitors) : monitors[i].enabled /\ monitors[i].name # name}

\* The rectangle at pos of the given size shares no area with the committed
\* rectangle of output i: one lies wholly to one side of the other.
Apart(pos, size, i) ==
    LET other == monitors[i].position
        other_size == effective_dimensions(monitors[i])
    IN  \/ pos[1] + size[1] <= other.x
        \/ other.x + other_size[1] <= pos[1]
        \/ pos[2] + size[2] <= other.y
        \/ other.y + other_size[2] <= pos[2]

\* The rectangle of name at pos overlaps no other enabled output.
Free(name, pos) == \A i \in Others(name) : Apart(pos, SizeOf(name), i)

\* C12: when a disabled output is enabled and the config file holds a saved
\* position for its name whose rectangle, with the output's transform-adjusted
\* size, overlaps no other enabled output, the Toggle command sent carries
\* exactly that saved position.
C12_SavedPositionRestored ==
    [][\A k \in SentNow :
          (/\ Enables(commands'[k])
           /\ IsSome(SavedSpot(commands'[k].name))
           /\ Free(commands'[k].name, Unwrap(SavedSpot(commands'[k].name))))
             => commands'[k].position = SavedSpot(commands'[k].name)
      ]_vars

\* The last command sent enables a disabled output, next to another enabled
\* output, at the position the file has saved for it.
C12_Witness ==
    /\ last_key = "t"
    /\ commands # <<>>
    /\ LET command == commands[Len(commands)]
       IN  /\ Enables(command)
           /\ ~monitors[Unwrap(NamePosition(monitors, command.name)) + 1].enabled
           /\ Others(command.name) # {}
           /\ IsSome(SavedSpot(command.name))
           /\ Free(command.name, Unwrap(SavedSpot(command.name)))
           /\ command.position = SavedSpot(command.name)
           /\ command.position # Some(<<0, 0>>)

\* The four places an output called name is relocated to: left of the
\* leftmost, right of the rightmost, above the topmost and below the
\* bottommost of the other enabled outputs.
Relocations(name) ==
    LET others == Others(name)
        size == SizeOf(name)
        right(i) == monitors[i].position.x + effective_dimensions(monitors[i])[1]
        bottom(i) == monitors[i].position.y + effective_dimensions(monitors[i])[2]
    IN  {<<SetMin({monitors[i].position.x : i \in others}) - size[1], 0>>,
         <<SetMax({right(i) : i \in others}), 0>>,
         <<0, SetMin({monitors[i].position.y : i \in others}) - size[2]>>,
         <<0, SetMax({bottom(i) : i \in others})>>}

Manhattan(p, q) == Abs(p[1] - q[1]) + Abs(p[2] - q[2])

\* C13: when a disabled output is enabled and its saved position overlaps
\* another enabled output, the position sent is one of the four candidates,
\* overlaps no other enabled output, and no other candidate free of overlap is
\* strictly nearer, in Manhattan distance, to the saved position.
C13_ClosestFreeCandidate ==
    [][\A k \in SentNow :
          (/\ Enables(commands'[k])
           /\ IsSome(SavedSpot(commands'[k].name))
           /\ ~Free(commands'[k].name, Unwrap(SavedSpot(commands'[k].name))))
             => LET name == commands'[k].name
                    sent == Unwrap(commands'[k].position)
                    saved == Unwrap(SavedSpot(name))
                IN  /\ sent \in Relocations(name)
                    /\ Free(name, sent)
                    /\ \A c \in Relocations(name) :
                          Free(name, c) => Manhattan(sent, saved) <= Manhattan(c, saved)
      ]_vars

\* The last command sent enables a disabled output whose saved position
\* overlaps another enabled output, at the candidate above the topmost.
C13_Witness ==
    /\ last_key = "t"
    /\ commands # <<>>
    /\ LET command == commands[Len(commands)]
       IN  /\ Enables(command)
           /\ ~monitors[Unwrap(NamePosition(monitors, command.name)) + 1].enabled
           /\ IsSome(SavedSpot(command.name))
           /\ ~Free(command.name, Unwrap(SavedSpot(command.name)))
           /\ Unwrap(command.position) \in Relocations(command.name)
           /\ Unwrap(command.position)[2] < 0

(***************************************************************************)
(* Moving: arrow keys in the Monitor panel, with the run of moves in one   *)
(* direction kept as history in fn_in, over layouts whose committed        *)
(* positions may be negative.                                              *)
(***************************************************************************)
MoveKeys == 4
MoveCoord == 12

MoveLayouts ==
    {<<Output(D1, TRUE, 9, 0)>>,
     <<Output(D1, TRUE, 0, 0), Output(D2, FALSE, 2, 0)>>,
     <<Output(D1, TRUE, 0, 0), Output(D2, TRUE, 2, 0), Output(H1, TRUE, 3, 0)>>,
     <<Output(D1, TRUE, -1, 0), Output(D2, TRUE, 1, 0)>>,
     <<Output(D1, TRUE, 1, 1), Output(D2, TRUE, 1, -1)>>}

InitMove ==
    /\ AppInit({"Hyprland"}, MoveLayouts, Some(MoveKeys), Some(0))
    /\ config_file = None
    /\ FnIdle /\ SetupIdle

\* The selected output exists and is enabled: move_monitor moves it.
Movable ==
    selected_monitor < Len(monitors) /\ monitors[selected_monitor + 1].enabled

\* The run this move belongs to: k counts the moves in this direction, each
\* within the repeat window of the one before.
Run(direction, within) ==
    [direction |-> direction,
     k |-> IF within /\ IsSome(fn_in) /\ Unwrap(fn_in).direction = direction
           THEN Unwrap(fn_in).k + 1
           ELSE 1]

\* An arrow key in the Monitor panel, as KeyMove, with the run recorded.
KeyMoveTimed ==
    /\ Reading /\ ~pending_last_toggle_monitor
    /\ panel = "Monitor"
    /\ KeyComes
    /\ \E direction \in Directions, within \in BOOLEAN :
          LET w == CASE direction = "Up" -> step_selection(clear_error(World), FALSE, within)
                     [] direction = "Down" -> step_selection(clear_error(World), TRUE, within)
                     [] direction = "Left" -> nav_left(clear_error(World), within)
                     [] direction = "Right" -> nav_right(clear_error(World), within)
          IN  /\ \A k \in Keys(w.pending_positions) :
                    /\ Unwrap(w.pending_positions[k])[1] <= MoveCoord
                    /\ Unwrap(w.pending_positions[k])[2] <= MoveCoord
              /\ Becomes(w)
              /\ last_key' = direction
              /\ fn_in' = IF Movable THEN Some(Run(direction, within)) ELSE fn_in
    /\ loop_pc' = "drain"
    /\ keys_left' = Pressed
    /\ UNCHANGED <<envVars, had_events, fn_out, setupVars, chanVars, asked>>

NextMove ==
    \/ DrainEvent
    \/ DrainDone
    \/ KeyMoveTimed
    \/ KeySelectNext

SpecMove == InitMove /\ [][NextMove]_vars

\* The step is a move of the selected output.
Moved == KeyHandled /\ last_key' \in Directions /\ Movable

\* The step the claim gives the move just recorded.
RunStep == 1 + 2 * (Unwrap(fn_in').k - 1)

\* Where the selected output stands before the move, and its size.
Standing == display_position(World, selected_monitor)

SelectedSize == effective_dimensions(monitors[selected_monitor + 1])

\* Where a move by step in the direction last_key' takes the selected
\* output, no coordinate below 0.
Target(step) ==
    LET to == CASE last_key' = "Left" -> <<Standing[1] - step, Standing[2]>>
                [] last_key' = "Right" -> <<Standing[1] + step, Standing[2]>>
                [] last_key' = "Up" -> <<Standing[1], Standing[2] - step>>
                [] last_key' = "Down" -> <<Standing[1], Standing[2] + step>>
    IN  <<IF to[1] < 0 THEN 0 ELSE to[1], IF to[2] < 0 THEN 0 ELSE to[2]>>

\* The other enabled outputs whose displayed rectangle the selected output,
\* at pos, would share area with (0-based indices).
Hit(pos) ==
    {i \in 0..(Len(monitors) - 1) :
        /\ i # selected_monitor
        /\ monitors[i + 1].enabled
        /\ LET at == display_position(World, i)
               size == effective_dimensions(monitors[i + 1])
           IN  ~(\/ pos[1] + SelectedSize[1] <= at[1]
                 \/ at[1] + size[1] <= pos[1]
                 \/ pos[2] + SelectedSize[2] <= at[2]
                 \/ at[2] + size[2] <= pos[2])}

\* C14: when a move of the selected output would make it overlap exactly one
\* other enabled output, both outputs receive pending positions with the
\* selected output entirely on the far side of the other in the direction of
\* movement, and the two do not overlap.
C14_SwapSides ==
    [][(Moved /\ Cardinality(Hit(Target(RunStep))) = 1)
          => LET o == CHOOSE i \in Hit(Target(RunStep)) : TRUE
                 size == effective_dimensions(monitors[o + 1])
             IN  /\ IsSome(pending_positions'[selected_monitor])
                 /\ IsSome(pending_positions'[o])
                 /\ LET sel == Unwrap(pending_positions'[selected_monitor])
                        other == Unwrap(pending_positions'[o])
                    IN  /\ CASE last_key' = "Left" -> sel[1] + SelectedSize[1] <= other[1]
                             [] last_key' = "Right" -> other[1] + size[1] <= sel[1]
                             [] last_key' = "Up" -> sel[2] + SelectedSize[2] <= other[2]
                             [] last_key' = "Down" -> other[2] + size[2] <= sel[2]
                        /\ \/ sel[1] + SelectedSize[1] <= other[1]
                           \/ other[1] + size[1] <= sel[1]
                           \/ sel[2] + SelectedSize[2] <= other[2]
                           \/ other[2] + size[2] <= sel[2]
      ]_vars

\* C15: the k-th consecutive move in one direction, each within the repeat
\* window of the one before, uses the step 1 + 2(k-1); the step is 1 for the
\* first move, after a change of direction and after the window has elapsed.
\* The step shows in the repeat count and in where the selected output goes
\* when it hits no other output.
C15_RepeatStep ==
    [][Moved =>
          /\ move_repeat_count' = Unwrap(fn_in').k - 1
          /\ Hit(Target(RunStep)) = {} =>
                pending_positions' =
                    [pending_positions EXCEPT ![selected_monitor] = Some(Target(RunStep))]
      ]_vars

\* The third move to the left in a row has taken the only output from x = 5
\* to x = 0, by the step 5.
C15_Witness ==
    /\ IsSome(fn_in)
    /\ Unwrap(fn_in).k = 3
    /\ Unwrap(fn_in).direction = "Left"
    /\ last_key = "Left"
    /\ Len(monitors) = 1
    /\ monitors[1].position.x = 9
    /\ pending_positions[0] = Some(<<0, 0>>)
    /\ move_repeat_count = 2

\* C16: every position move_monitor writes into the pending-position
\* overlay, for the selected output and for an output repositioned by a
\* swap, has x >= 0 and y >= 0, whatever the committed positions were.
C16_PendingNonNegative ==
    [][Moved =>
          \A k \in Keys(pending_positions') :
              pending_positions'[k] # pending_positions[k] =>
                  /\ Unwrap(pending_positions'[k])[1] >= 0
                  /\ Unwrap(pending_positions'[k])[2] >= 0
      ]_vars

\* A swap has given pending positions to two outputs, one of them committed
\* at a negative coordinate.
C16_Witness ==
    /\ last_key \in Directions
    /\ Cardinality(Keys(pending_positions)) = 2
    /\ \E k \in Keys(pending_positions) :
          /\ k < Len(monitors)
          /\ (monitors[k + 1].position.x < 0 \/ monitors[k + 1].position.y < 0)
          /\ Unwrap(pending_positions[k])[1] >= 0
          /\ Unwrap(pending_positions[k])[2] >= 0

(***************************************************************************)
(* Sends that fail: the protocol thread has exited and dropped the         *)
(* Receiver of the command channel.                                        *)
(***************************************************************************)
\* The App as it would be with the Receiver still there.
Connected == [World EXCEPT !.receiver_alive = TRUE]

\* The key 't' or 'y' reaches a send: with the Receiver there, a command
\* would be queued.
ToggleSends == Len(toggle_monitor(Connected).commands) > Len(commands)

\* The key Enter reaches a send.
CommitSends ==
    \E order \in Orders(IF panel = "Monitor" THEN Keys(pending_positions) ELSE {}) :
        Len(apply_action(Connected, order, TRUE).commands) > Len(commands)

\* C20: when sending a command fails during a toggle or a commit, the loop
\* records an error message and goes on: it does not terminate, and it
\* returns to draining events and reading keys.
C20_SendFailureNonFatal ==
    [][(KeyHandled /\ ~receiver_alive) =>
          /\ (last_key' \in {"t", "y"} /\ ToggleSends) =>
                /\ error_message' = Some("Failed to toggle monitor")
                /\ loop_pc' = "drain"
          /\ (last_key' = "Enter" /\ CommitSends) =>
                /\ error_message' = Some("Failed to apply")
                /\ loop_pc' = "drain"
      ]_vars

\* After a toggle failed for want of a Receiver, the loop has gone back to
\* the event channel and applied an event that was waiting there.
C20_Witness ==
    /\ ~receiver_alive
    /\ last_key = "t"
    /\ error_message = Some("Failed to toggle monitor")
    /\ loop_pc = "drain"
    /\ had_events
    /\ events = <<>>

\* The key the step handles reaches a send that the channel rejects.
SendRejected ==
    /\ KeyHandled
    /\ ~receiver_alive
    /\ \/ last_key' \in {"t", "y"} /\ ToggleSends
       \/ last_key' = "Enter" /\ CommitSends

\* try_recv finds the event channel empty and its Sender gone.
FoundDisconnected ==
    loop_pc = "drain" /\ events = <<>> /\ ~receiver_alive /\ loop_pc' # "drain"

\* C21: once the protocol thread is gone, the loop that meets the rejected
\* send or the disconnected event channel terminates with a fatal error: it
\* neither drains events nor reads keys any more.
C21_ChannelFailureFatal ==
    [][(SendRejected \/ FoundDisconnected) => loop_pc' \notin {"drain", "key"}]_vars

\* ---------------------------------------------------------------------
\* When the configuration file is written.
\* ---------------------------------------------------------------------

\* The step handles Enter: apply_action.
Commits == KeyHandled /\ last_key' = "Enter"

\* The step ends a drain that received events, with needs_save set:
\* save_config writes the file.
SavesAfterDrain ==
    loop_pc = "drain" /\ loop_pc' = "key" /\ had_events /\ needs_save

\* The step handles 't' or 'y' and sends a Toggle.
TogglesSent ==
    /\ KeyHandled
    /\ last_key' \in {"t", "y"}
    /\ Len(commands') = Len(commands) + 1
    /\ commands'[Len(commands')].type = "Toggle"

Home == <<"/", "h">>

EndsWith(s, p) ==
    Len(s) >= Len(p) /\ SubSeq(s, Len(s) - Len(p) + 1, Len(s)) = p

\* Path::parent: the path without its last component, None for the root
\* and for the empty path.
Parent(path) ==
    IF path = <<>> \/ path = <<"/">> THEN None
    ELSE IF \A i \in 1..Len(path) : path[i] # "/" THEN Some(<<>>)
    ELSE IF SetMax({i \in 1..Len(path) : path[i] = "/"}) = 1 THEN Some(<<"/">>)
    ELSE Some(SubSeq(path, 1, SetMax({i \in 1..Len(path) : path[i] = "/"}) - 1))

\* Path::join: an absolute name replaces the directory.
PathJoin(dir, name) ==
    IF StartsWith(name, <<"/">>) \/ dir = <<>> THEN name
    ELSE IF EndsWith(dir, <<"/">>) THEN dir \o name
    ELSE dir \o <<"/">> \o name

extract_filename(path) ==
    SplitChar(Trim(path), "/")[Len(SplitChar(Trim(path), "/"))]

extract_output_filename(plan) ==
    IF IsSome(plan.source_line)
          /\ IsSome(StripPrefix(Unwrap(plan.source_line), <<"s", "o", "u", "r", "c", "e", " ", "=", " ">>))
    THEN extract_filename(Unwrap(StripPrefix(Unwrap(plan.source_line), <<"s", "o", "u", "r", "c", "e", " ", "=", " ">>)))
    ELSE IF IsSome(plan.source_line)
               /\ IsSome(StripPrefix(Unwrap(plan.source_line), <<"i", "n", "c", "l", "u", "d", "e", " ">>))
    THEN extract_filename(Unwrap(StripPrefix(Unwrap(plan.source_line), <<"i", "n", "c", "l", "u", "d", "e", " ">>)))
    ELSE <<"m", "o", "n", "i", "t", "o", "r", "s", ".", "c", "o", "n", "f">>

resolve_path(base_dir, path) ==
    IF IsSome(StripPrefix(Trim(path), <<"~", "/">>))
    THEN Home \o <<"/">> \o Unwrap(StripPrefix(Trim(path), <<"~", "/">>))
    ELSE PathJoin(base_dir, Trim(path))

\* The file system: the text of every file that exists, by path.
Lookup(fs, path) == IF path \in DOMAIN fs THEN Some(fs[path]) ELSE None

Stored(fs, path, content) ==
    [p \in DOMAIN fs \cup {path} |-> IF p = path THEN content ELSE fs[p]]

\* The cause an I/O error of the operating system reports.
IoCause == <<"i", "o">>

FailedToWrite(path) == <<"F", "a", "i", "l", "e", "d", " ", "t", "o", " ", "w", "r", "i", "t", "e", " ">> \o path \o <<":", " ">> \o IoCause

FailedToRead(path) == <<"F", "a", "i", "l", "e", "d", " ", "t", "o", " ", "r", "e", "a", "d", " ">> \o path \o <<":", " ">> \o IoCause

\* std::fs::write: the file holds the content, or the call fails and the
\* file is as it was or, torn, created or cut to nothing.
WriteFile(fs, path, content, fails, torn) ==
    IF fails
    THEN [files |-> IF torn THEN Stored(fs, path, <<>>) ELSE fs,
          ret |-> Some(FailedToWrite(path))]
    ELSE [files |-> Stored(fs, path, content), ret |-> None]

has_monitors(plan) == plan.output_content # <<>>

\* The main config as step 2 writes it.
FinalContent(content, source_line) ==
    (IF EndsWith(content, <<"\n">>) THEN content ELSE content \o <<"\n">>)
        \o (IF IsSome(source_line)
            THEN <<"\n">> \o Unwrap(source_line) \o <<"\n">>
            ELSE <<>>)

\* The main config as step 3 writes it.
Appended(content, line) ==
    (IF EndsWith(content, <<"\n">>) THEN content ELSE content \o <<"\n">>)
        \o <<"\n">> \o line \o <<"\n">>

InModified(plan, path) ==
    \E i \in 1..Len(plan.modified_files) : plan.modified_files[i].path = path

\* Step 3 runs for a source line and a main config that step 2 left alone.
AppendsAlways(plan) == IsSome(plan.source_line)

NeedsAppend(plan) ==
    ~InModified(plan, plan.main_config) /\ IsSome(plan.source_line)

\* Step 3: n operations came before; the fail-th operation of the run fails.
AppendSource(fs, plan, n, fail, torn) ==
    IF fail = n + 1 \/ ~IsSome(Lookup(fs, plan.main_config))
    THEN [files |-> fs, ret |-> Some(FailedToRead(plan.main_config))]
    ELSE WriteFile(fs, plan.main_config,
                   Appended(fs[plan.main_config], Unwrap(plan.source_line)),
                   fail = n + 2, torn)

ThenSource(r, plan, fail, torn) ==
    IF IsSome(r.ret) \/ ~NeedsAppend(plan) THEN r
    ELSE AppendSource(r.files, plan, 1 + Len(plan.modified_files), fail, torn)

\* Step 2 from the i-th modified file on.
RECURSIVE WriteModified(_, _, _, _, _)
ModifiedFrom(r, plan, i, fail, torn) ==
    IF IsSome(r.ret) THEN r ELSE WriteModified(r.files, plan, i, fail, torn)

WriteModified(fs, plan, i, fail, torn) ==
    IF i > Len(plan.modified_files) THEN [files |-> fs, ret |-> None]
    ELSE ModifiedFrom(
             WriteFile(fs, plan.modified_files[i].path,
                       IF plan.modified_files[i].path = plan.main_config
                       THEN FinalContent(plan.modified_files[i].content,
                                         plan.source_line)
                       ELSE plan.modified_files[i].content,
                       fail = i + 1, torn),
             plan, i + 1, fail, torn)

\* A failed write of the dedicated file that does not end the run.
ThenModifiedRegardless(r, plan, fail, torn) ==
    ThenSource(WriteModified(r.files, plan, 1, fail, torn), plan, fail, torn)

ThenModified(r, plan, fail, torn) ==
    IF IsSome(r.ret) THEN r
    ELSE ThenSource(WriteModified(r.files, plan, 1, fail, torn), plan, fail, torn)

\* ExtractionPlan::apply on the file system fs. Its operations are counted
\* from 1; the fail-th fails (0: none does), torn as WriteFile has it.
apply(fs, plan, fail, torn) ==
    IF plan.output_content = <<>>
    THEN [files |-> fs, ret |-> Some(<<"N", "o", " ", "m", "o", "n", "i", "t", "o", "r", " ", "c", "o", "n", "f", "i", "g", "u", "r", "a", "t", "i", "o", "n", " ", "f", "o", "u", "n", "d", " ", "t", "o", " ", "e", "x", "t", "r", "a", "c", "t">>)]
    ELSE IF ~IsSome(Parent(plan.main_config))
    THEN [files |-> fs, ret |-> Some(<<"C", "a", "n", "n", "o", "t", " ", "d", "e", "t", "e", "r", "m", "i", "n", "e", " ", "c", "o", "n", "f", "i", "g", " ", "d", "i", "r", "e", "c", "t", "o", "r", "y">>)]
    ELSE ThenModified(
             WriteFile(fs,
                       PathJoin(Unwrap(Parent(plan.main_config)),
                                extract_output_filename(plan)),
                       plan.output_content, fail = 1, torn),
             plan, fail, torn)

\* ---- The planner (spec 4.3) ----

\* The entry point of the compositor's configuration.
main_config_path(c) ==
    IF c = "Hyprland" THEN Some(Home \o <<"/", ".", "c", "o", "n", "f", "i", "g", "/", "h", "y", "p", "r", "/", "h", "y", "p", "r", "l", "a", "n", "d", ".", "c", "o", "n", "f">>)
    ELSE IF c = "Sway" THEN Some(Home \o <<"/", ".", "c", "o", "n", "f", "i", "g", "/", "s", "w", "a", "y", "/", "c", "o", "n", "f", "i", "g">>)
    ELSE None

\* A monitor (Hyprland) or output (Sway) directive.
IsDirective(c, line) ==
    IF c = "Hyprland" THEN StartsWith(Trim(line), <<"m", "o", "n", "i", "t", "o", "r">>)
    ELSE StartsWith(Trim(line), <<"o", "u", "t", "p", "u", "t", " ">>)

\* The file a source (Hyprland) or include (Sway) line names, if it is one.
SourceTarget(c, line) ==
    IF c = "Hyprland"
    THEN IF StartsWith(Trim(line), <<"s", "o", "u", "r", "c", "e">>)
            /\ StartsWith(TrimStart(SubSeq(Trim(line), 7, Len(Trim(line)))), <<"=">>)
         THEN Some(Trim(Tail(TrimStart(SubSeq(Trim(line), 7, Len(Trim(line)))))))
         ELSE None
    ELSE IF StartsWith(Trim(line), <<"i", "n", "c", "l", "u", "d", "e", " ">>)
         THEN Some(Trim(SubSeq(Trim(line), 9, Len(Trim(line)))))
         ELSE None

\* The files the lines name, in order, resolved against base_dir.
RECURSIVE Targets(_, _, _)
Targets(c, base_dir, lines) ==
    IF lines = <<>> THEN <<>>
    ELSE (IF IsSome(SourceTarget(c, Head(lines)))
          THEN <<resolve_path(base_dir, Unwrap(SourceTarget(c, Head(lines))))>>
          ELSE <<>>)
         \o Targets(c, base_dir, Tail(lines))

\* A sequence without its repetitions.
RECURSIVE Distinct(_)
Distinct(s) ==
    IF s = <<>> THEN <<>>
    ELSE IF \E i \in 1..(Len(s) - 1) : s[i] = s[Len(s)]
    THEN Distinct(SubSeq(s, 1, Len(s) - 1))
    ELSE Distinct(SubSeq(s, 1, Len(s) - 1)) \o <<s[Len(s)]>>

\* The main config, then the files it names that exist: one level.
Visited(c, fs, main) ==
    LET Other(p) == p # main /\ p \in DOMAIN fs
    IN  <<main>> \o SelectSeq(Distinct(Targets(c, Unwrap(Parent(main)),
                                                 Lines(fs[main]))),
                               Other)

DirectiveLines(c, content) ==
    LET Is(line) == IsDirective(c, line) IN SelectSeq(Lines(content), Is)

\* The content without its directives, everything else in its order.
Stripped(c, content) ==
    LET Kept(line) == ~IsDirective(c, line)
    IN  Join(SelectSeq(Lines(content), Kept), <<"\n">>)
            \o (IF EndsWith(content, <<"\n">>)
                      /\ SelectSeq(Lines(content), Kept) # <<>>
                THEN <<"\n">> ELSE <<>>)

\* Every line of the sequence, each ended by a newline.
RECURSIVE Unlines(_)
Unlines(lines) ==
    IF lines = <<>> THEN <<>>
    ELSE Head(lines) \o <<"\n">> \o Unlines(Tail(lines))

RECURSIVE Collected(_, _, _)
Collected(c, fs, paths) ==
    IF paths = <<>> THEN <<>>
    ELSE Unlines(DirectiveLines(c, fs[Head(paths)]))
             \o Collected(c, fs, Tail(paths))

RECURSIVE Rewritten(_, _, _)
Rewritten(c, fs, paths) ==
    IF paths = <<>> THEN <<>>
    ELSE (IF DirectiveLines(c, fs[Head(paths)]) # <<>>
          THEN <<[path |-> Head(paths),
                  content |-> Stripped(c, fs[Head(paths)])]>>
          ELSE <<>>)
         \o Rewritten(c, fs, Tail(paths))

\* The main config names the dedicated file.
References(c, fs, main, dedicated) ==
    \E i \in 1..Len(Targets(c, Unwrap(Parent(main)), Lines(fs[main]))) :
        Targets(c, Unwrap(Parent(main)), Lines(fs[main]))[i] = dedicated

SourceLine(c, dedicated) ==
    IF c = "Hyprland" THEN <<"s", "o", "u", "r", "c", "e", " ", "=", " ">> \o dedicated ELSE <<"i", "n", "c", "l", "u", "d", "e", " ">> \o dedicated

\* hyprland::extract and sway::extract: the plan, or None for a main
\* config that cannot be read.
PlanFor(c, fs, config_path, dedicated) ==
    [output_content |-> Collected(c, fs, Visited(c, fs, config_path)),
     modified_files |-> Rewritten(c, fs, Visited(c, fs, config_path)),
     source_line |-> IF References(c, fs, config_path, dedicated) THEN None
                     ELSE Some(SourceLine(c, dedicated)),
     main_config |-> config_path,
     source_exists |-> References(c, fs, config_path, dedicated)]

extract(c, fs, config_path, output_filename) ==
    IF config_path \notin DOMAIN fs THEN None
    ELSE Some(PlanFor(c, fs, config_path,
                      PathJoin(Unwrap(Parent(config_path)), output_filename)))

extract_monitors(fs, config_path, c, output_filename) ==
    IF c \in {"Hyprland", "Sway"}
    THEN extract(c, fs, config_path, output_filename)
    ELSE None

\* ---- First-time setup (setup.rs) ----

default_config_path(c) ==
    IF c = "Hyprland" THEN <<"~", "/", ".", "c", "o", "n", "f", "i", "g", "/", "h", "y", "p", "r", "/", "m", "o", "n", "i", "t", "o", "r", "s", ".", "c", "o", "n", "f">>
    ELSE IF c = "Sway" THEN <<"~", "/", ".", "c", "o", "n", "f", "i", "g", "/", "s", "w", "a", "y", "/", "o", "u", "t", "p", "u", "t", ".", "c", "o", "n", "f">>
    ELSE IF c = "River" THEN <<"~", "/", ".", "c", "o", "n", "f", "i", "g", "/", "r", "i", "v", "e", "r", "/", "m", "o", "n", "i", "t", "o", "r", "s", ".", "c", "o", "n", "f">>
    ELSE <<>>

get_monitors_config_name(c) ==
    IF c = "Sway" THEN <<"o", "u", "t", "p", "u", "t", ".", "c", "o", "n", "f">> ELSE <<"m", "o", "n", "i", "t", "o", "r", "s", ".", "c", "o", "n", "f">>

get_outputfile_name(c) == get_monitors_config_name(c)

Paths(modified_files) ==
    [i \in 1..Len(modified_files) |-> modified_files[i].path]

\* The lines of the content that are neither empty nor a comment.
monitor_count(output_content) ==
    LET Counts(l) == Trim(l) # <<>> /\ ~StartsWith(Trim(l), <<"#">>)
    IN  Len(SelectSeq(Lines(output_content), Counts))

\* The test that took the main config for the dedicated file.
already_consolidated_main(plan, source_files, output_path) ==
    /\ plan.source_exists
    /\ Len(source_files) <= 1
    /\ source_files # <<>> /\ source_files[1] = plan.main_config

already_consolidated(plan, source_files, output_path) ==
    /\ plan.source_exists
    /\ Len(source_files) <= 1
    /\ source_files # <<>> /\ source_files[1] = output_path

ExtractionResult(plan, output_path) ==
    [plan |-> plan,
     output_path |-> output_path,
     source_files |-> Paths(plan.modified_files),
     monitor_count |-> monitor_count(plan.output_content),
     already_consolidated |->
         already_consolidated(plan, Paths(plan.modified_files), output_path)]

ResultOf(plan, main_config, output_filename) ==
    IF ~IsSome(plan) THEN None
    ELSE IF ~has_monitors(Unwrap(plan)) THEN None
    ELSE IF ~IsSome(Parent(main_config)) THEN None
    ELSE Some(ExtractionResult(Unwrap(plan),
                               PathJoin(Unwrap(Parent(main_config)),
                                        output_filename)))

attempt_extraction(c, fs) ==
    IF ~IsSome(main_config_path(c)) THEN None
    ELSE ResultOf(extract_monitors(fs, Unwrap(main_config_path(c)), c,
                                   get_outputfile_name(c)),
                  Unwrap(main_config_path(c)), get_outputfile_name(c))

\* init has not been called.
NotStarted ==
    [pc |-> "start", input |-> <<>>, cursor |-> 0, error |-> None,
     phase |-> "Manual", extraction |-> None, warned |-> FALSE,
     key |-> None, result |-> None, runs |-> 0, prior |-> None]

\* The SetupState init builds, before its loop.
SetupState(st, c, extraction) ==
    [st EXCEPT !.pc = "loop",
               !.input = IF IsSome(extraction)
                         THEN Unwrap(extraction).output_path
                         ELSE default_config_path(c),
               !.cursor = Len(IF IsSome(extraction)
                              THEN Unwrap(extraction).output_path
                              ELSE default_config_path(c)),
               !.error = None,
               !.phase = IF IsSome(extraction) THEN "Extraction" ELSE "Manual",
               !.extraction = extraction,
               !.warned = FALSE,
               !.key = None,
               !.result = None,
               !.runs = st.runs + 1]

\* The loop of init has read the key.
KeyRead(st, key) == [st EXCEPT !.key = Some(key)]

Config(path) == [monitor_config_path |-> path, workspace_count |-> 10]

\* init returns Ok(result).
Returned(st, result) == [st EXCEPT !.pc = "returned", !.result = Some(result)]

\* Enter with a failed apply that setup takes for a success.
ConfirmedAnyway(st, r) ==
    [files |-> r.files,
     setup |-> Returned(st, Some(Config(Unwrap(st.extraction).output_path)))]

\* Enter in the extraction phase once apply, if it ran, gave r.
Confirmed(st, r) ==
    IF IsSome(r.ret)
    THEN [files |-> r.files,
          setup |-> [st EXCEPT !.error = Some(<<"E", "x", "t", "r", "a", "c", "t", "i", "o", "n", " ", "f", "a", "i", "l", "e", "d", ":", " ">>
                                                \o Unwrap(r.ret)),
                               !.phase = "Manual"]]
    ELSE [files |-> r.files,
          setup |-> Returned(st, Some(Config(Unwrap(st.extraction).output_path)))]

EnterExtraction(fs, st, fail, torn) ==
    IF ~Unwrap(st.extraction).already_consolidated
    THEN Confirmed(st, apply(fs, Unwrap(st.extraction).plan, fail, torn))
    ELSE Confirmed(st, [files |-> fs, ret |-> None])

\* More runs of setup than this are not followed.
SetupRuns == 2

\* More lines than this are not put in a main config.
MaxMainLines == 2

InLoop(phase) == setup.pc = "loop" /\ setup.phase = phase

SetupStart ==
    /\ setup.pc = "start"
    /\ setup' = SetupState(setup, compositor, attempt_extraction(compositor, files))
    /\ UNCHANGED <<appVars, envVars, loopVars, fnVars, chanVars, asked, files>>

SetupEnterExtraction ==
    /\ InLoop("Extraction")
    /\ \E fail \in 0..(Len(Unwrap(setup.extraction).plan.modified_files) + 3),
          torn \in BOOLEAN :
           /\ files' = EnterExtraction(files, KeyRead(setup, "Enter"), fail, torn).files
           /\ setup' = EnterExtraction(files, KeyRead(setup, "Enter"), fail, torn).setup
    /\ UNCHANGED <<appVars, envVars, loopVars, fnVars, chanVars, asked>>

SetupManual ==
    /\ InLoop("Extraction")
    /\ setup' = [KeyRead(setup, "m") EXCEPT
                              !.phase = "Manual",
                              !.input = default_config_path(compositor),
                              !.cursor = Len(default_config_path(compositor)),
                              !.error = None,
                              !.warned = FALSE]
    /\ UNCHANGED <<appVars, envVars, loopVars, fnVars, chanVars, asked, files>>

SetupEsc ==
    /\ setup.pc = "loop"
    /\ setup' = Returned(KeyRead(setup, "Esc"), None)
    /\ UNCHANGED <<appVars, envVars, loopVars, fnVars, chanVars, asked, files>>

\* Setup is run once more on the files as they are.
SetupAgain ==
    /\ setup.pc = "returned"
    /\ setup.runs < SetupRuns
    /\ setup' = [NotStarted EXCEPT
                    !.runs = setup.runs,
                    !.prior = Some([result |-> setup.result,
                                    key |-> setup.key,
                                    phase |-> setup.phase,
                                    extraction |-> setup.extraction,
                                    files |-> files])]
    /\ UNCHANGED <<appVars, envVars, loopVars, fnVars, chanVars, asked, files>>

\* The lines a main config is made of, by what they are.
MainLine(c, kind) ==
    IF c = "Hyprland"
    THEN CASE kind = "setting" -> <<"b", "i", "n", "d", " ", "=", " ", "Q", ",", " ", "e", "x", "i", "t">>
           [] kind = "directive" -> <<"m", "o", "n", "i", "t", "o", "r", " ", "=", " ", "A", ",", " ", "1", "x", "1", ",", " ", "0", "x", "0", ",", " ", "1">>
           [] kind = "dedicated" -> <<"s", "o", "u", "r", "c", "e", " ", "=", " ", "~", "/", ".", "c", "o", "n", "f", "i", "g", "/", "h", "y", "p", "r", "/", "m", "o", "n", "i", "t", "o", "r", "s", ".", "c", "o", "n", "f">>
           [] OTHER -> <<"s", "o", "u", "r", "c", "e", " ", "=", " ", "e", "x", "t", "r", "a", ".", "c", "o", "n", "f">>
    ELSE CASE kind = "setting" -> <<"f", "o", "n", "t", " ", "m", "o", "n", "o">>
           [] kind = "directive" -> <<"o", "u", "t", "p", "u", "t", " ", "A", " ", "p", "o", "s", " ", "0", " ", "0">>
           [] kind = "dedicated" -> <<"i", "n", "c", "l", "u", "d", "e", " ", "~", "/", ".", "c", "o", "n", "f", "i", "g", "/", "s", "w", "a", "y", "/", "o", "u", "t", "p", "u", "t", ".", "c", "o", "n", "f">>
           [] OTHER -> <<"i", "n", "c", "l", "u", "d", "e", " ", "e", "x", "t", "r", "a", ".", "c", "o", "n", "f">>

LineKinds == {"setting", "directive", "dedicated", "extra"}

KindLists == UNION {[1..n -> LineKinds] : n \in 0..MaxMainLines}

MainTexts(c) ==
    {Join([i \in DOMAIN kinds |-> MainLine(c, kinds[i])], <<"\n">>) \o ending :
        kinds \in KindLists, ending \in {<<>>, <<"\n">>}}

\* What a sourced file may hold.
SourcedTexts(c) ==
    IF c = "Hyprland"
    THEN {<<"m", "o", "n", "i", "t", "o", "r", " ", "=", " ", "B", ",", " ", "1", "x", "1", ",", " ", "1", "x", "0", ",", " ", "1", "\n">>, <<"#", " ", "o", "u", "t", "p", "u", "t", "s", "\n">>}
    ELSE {<<"o", "u", "t", "p", "u", "t", " ", "B", " ", "p", "o", "s", " ", "1", " ", "0", "\n">>, <<"#", " ", "o", "u", "t", "p", "u", "t", "s", "\n">>}

\* The files of name under the main config's directory: none, or one text.
Maybe(c, name, texts) ==
    {<<>>} \cup {Stored(<<>>, PathJoin(Unwrap(Parent(Unwrap(main_config_path(c)))),
                                      name), t) : t \in texts}

Merged(f, g) == [p \in DOMAIN f \cup DOMAIN g |-> IF p \in DOMAIN f THEN f[p] ELSE g[p]]

\* The file systems setup may find.
Configurations(c) ==
    IF ~IsSome(main_config_path(c)) THEN {<<>>}
    ELSE {Merged(m, Merged(d, e)) :
            m \in Maybe(c, extract_filename(Unwrap(main_config_path(c))), MainTexts(c)),
            d \in Maybe(c, get_monitors_config_name(c), SourcedTexts(c)),
            e \in Maybe(c, <<"e", "x", "t", "r", "a", ".", "c", "o", "n", "f">>, SourcedTexts(c))}

InitSetup ==
    /\ AppInit({"Hyprland", "Sway", "River", "Unknown"}, {<<>>}, Some(0), Some(0))
    /\ config_file = None
    /\ FnIdle
    /\ files \in Configurations(compositor)
    /\ setup = NotStarted

NextSetup ==
    \/ SetupStart
    \/ SetupEnterExtraction
    \/ SetupManual
    \/ SetupEsc
    \/ SetupAgain

SpecSetup == InitSetup /\ [][NextSetup]_vars

\* The plan setup holds, the file setup calls dedicated and the main config.
Plan == Unwrap(setup.extraction).plan

OutputPath == Unwrap(setup.extraction).output_path

MainConfig == Plan.main_config

\* Enter in the extraction phase is about to run apply.
Applying == InLoop("Extraction") /\ ~Unwrap(setup.extraction).already_consolidated

\* The step is the loop handling Enter.
Enters == setup.pc = "loop" /\ setup'.key = Some("Enter")

\* The step ends setup with a Config.
ReturnsConfig == setup'.pc = "returned" /\ setup'.result # Some(None)

\* The step leaves setup in its loop, in the manual phase with an error.
ApplyFails == setup'.pc = "loop" /\ setup'.phase = "Manual" /\ IsSome(setup'.error)

\* The content the plan has for a file it rewrites.
PlannedFor(plan, path) ==
    plan.modified_files[CHOOSE i \in 1..Len(plan.modified_files) :
                            plan.modified_files[i].path = path].content

\* The main config before anything is appended to it.
MainBase ==
    IF InModified(Plan, MainConfig) THEN PlannedFor(Plan, MainConfig)
    ELSE files[MainConfig]

\* The file a source or include line names, seen from the main config.
NamedBy(line) ==
    resolve_path(Unwrap(Parent(MainConfig)), Unwrap(SourceTarget(compositor, line)))

Occurrences(lines, line) == Cardinality({i \in 1..Len(lines) : lines[i] = line})

SourceLines(content) ==
    Cardinality({i \in 1..Len(Lines(content)) :
                    IsSome(SourceTarget(compositor, Lines(content)[i]))})

\* The main config is base with line after it, on a line of its own.
EndsWithLine(final, base, line) ==
    /\ EndsWith(final, <<"\n">>)
    /\ Lines(final) # <<>>
    /\ Lines(final)[Len(Lines(final))] = line
    /\ StartsWith(final, base)
    /\ Occurrences(Lines(final), line) = Occurrences(Lines(base), line) + 1

\* C17: when apply succeeds on a plan with a source line, the file the line
\* names holds exactly output_content and the main config ends with the
\* line on a line of its own, added once, whether step 2 or step 3 wrote
\* it; without a source line the main config gains no source/include line.
C17_SourceLineAppendedOnce ==
    [][(Applying /\ Enters /\ ReturnsConfig)
          => IF IsSome(Plan.source_line)
             THEN /\ Lookup(files', NamedBy(Unwrap(Plan.source_line)))
                        = Some(Plan.output_content)
                  /\ EndsWithLine(files'[MainConfig], MainBase,
                                  Unwrap(Plan.source_line))
             ELSE SourceLines(files'[MainConfig]) = SourceLines(MainBase)
      ]_vars

\* apply went through step 3: a sourced file lost its directives and the
\* main config, which had none, gained the source line.
C17_Witness ==
    /\ setup.pc = "returned"
    /\ setup.key = Some("Enter")
    /\ setup.phase = "Extraction"
    /\ setup.result = Some(Some(Config(OutputPath)))
    /\ ~Unwrap(setup.extraction).already_consolidated
    /\ IsSome(Plan.source_line)
    /\ ~InModified(Plan, MainConfig)
    /\ Len(Plan.modified_files) = 1
    /\ files[Plan.modified_files[1].path] = Plan.modified_files[1].content
    /\ files[OutputPath] = Plan.output_content
    /\ EndsWith(files[MainConfig], <<"\n", "\n">> \o Unwrap(Plan.source_line) \o <<"\n">>)

\* The file apply writes first.
Dedicated(plan) ==
    IF IsSome(plan.source_line)
    THEN resolve_path(Unwrap(Parent(plan.main_config)),
                      Unwrap(SourceTarget(compositor, Unwrap(plan.source_line))))
    ELSE PathJoin(Unwrap(Parent(plan.main_config)), <<"m", "o", "n", "i", "t", "o", "r", "s", ".", "c", "o", "n", "f">>)

\* What apply writes, in the order it is to write it, on the files fs.
Writes(plan, fs) ==
    <<[path |-> Dedicated(plan), content |-> plan.output_content]>>
    \o [i \in 1..Len(plan.modified_files) |->
           [path |-> plan.modified_files[i].path,
            content |-> IF plan.modified_files[i].path = plan.main_config
                        THEN FinalContent(plan.modified_files[i].content,
                                          plan.source_line)
                        ELSE plan.modified_files[i].content]]
    \o (IF IsSome(plan.source_line) /\ ~InModified(plan, plan.main_config)
        THEN <<[path |-> plan.main_config,
                content |-> Appended(fs[plan.main_config],
                                     Unwrap(plan.source_line))]>>
        ELSE <<>>)

RECURSIVE AfterWrites(_, _)
AfterWrites(fs, writes) ==
    IF writes = <<>> THEN fs
    ELSE AfterWrites(Stored(fs, Head(writes).path, Head(writes).content),
                     Tail(writes))

\* The first n writes were made and no other file differs, the file at
\* which the run failed aside.
StoppedAfter(n, writes) ==
    /\ \A p \in (DOMAIN files' \cup DOMAIN AfterWrites(files, SubSeq(writes, 1, n)))
                   \ {writes[n + 1].path} :
           Lookup(files', p) = Lookup(AfterWrites(files, SubSeq(writes, 1, n)), p)
    /\ ApplyFails
    /\ Contains(Unwrap(setup'.error), writes[n + 1].path)
    /\ \/ StartsWith(Unwrap(setup'.error), <<"E", "x", "t", "r", "a", "c", "t", "i", "o", "n", " ", "f", "a", "i", "l", "e", "d", ":", " ", "F", "a", "i", "l", "e", "d", " ", "t", "o", " ", "w", "r", "i", "t", "e", " ">>)
       \/ StartsWith(Unwrap(setup'.error), <<"E", "x", "t", "r", "a", "c", "t", "i", "o", "n", " ", "f", "a", "i", "l", "e", "d", ":", " ", "F", "a", "i", "l", "e", "d", " ", "t", "o", " ", "r", "e", "a", "d", " ">>)

\* C19: apply writes the dedicated file, then the rewritten files in list
\* order, then the main config; at the first failing read or write it
\* returns an error naming the path, writes nothing later and keeps what
\* it wrote, so a failure on the dedicated file leaves the sources alone.
C19_WritesInOrderNoRollback ==
    [][(Applying /\ Enters)
          => \E n \in 0..Len(Writes(Plan, files)) :
                IF n = Len(Writes(Plan, files))
                THEN files' = AfterWrites(files, Writes(Plan, files)) /\ ReturnsConfig
                ELSE StoppedAfter(n, Writes(Plan, files))
      ]_vars

\* apply failed at the first rewritten file: the dedicated file is
\* written, the file that failed and the main config are as they were.
C19_Witness ==
    /\ setup.pc = "loop"
    /\ setup.key = Some("Enter")
    /\ setup.phase = "Manual"
    /\ IsSome(setup.extraction)
    /\ Len(Plan.modified_files) = 1
    /\ ~InModified(Plan, MainConfig)
    /\ IsSome(Plan.source_line)
    /\ setup.error = Some(<<"E", "x", "t", "r", "a", "c", "t", "i", "o", "n", " ", "f", "a", "i", "l", "e", "d", ":", " ">>
                              \o FailedToWrite(Plan.modified_files[1].path))
    /\ files[OutputPath] = Plan.output_content
    /\ DirectiveLines(compositor, files[Plan.modified_files[1].path]) # <<>>
    /\ Occurrences(Lines(files[MainConfig]), Unwrap(Plan.source_line)) = 0

\* The plan says the main config names the dedicated file and the only
\* file with directives is the dedicated file.
Consolidated ==
    /\ Plan.source_exists
    /\ Len(Unwrap(setup.extraction).source_files) = 1
    /\ Unwrap(setup.extraction).source_files[1] = OutputPath

\* The run before this one was confirmed on a consolidated configuration.
PriorConsolidated ==
    /\ IsSome(setup.prior)
    /\ Unwrap(setup.prior).phase = "Extraction"
    /\ Unwrap(setup.prior).key = Some("Enter")
    /\ Unwrap(Unwrap(setup.prior).extraction).already_consolidated

\* C18: on a plan whose source reference exists and whose single source
\* file is the dedicated file, setup marks the configuration as already
\* consolidated and Enter writes no file and returns a Config with the
\* dedicated file; setup run again gives the same, the file unchanged.
C18_ConsolidatedIsNoOp ==
    /\ [][(InLoop("Extraction") /\ Consolidated)
             => /\ Unwrap(setup.extraction).already_consolidated
                /\ Enters => /\ files' = files
                             /\ setup'.pc = "returned"
                             /\ setup'.result = Some(Some(Config(OutputPath)))
         ]_vars
    /\ []((setup.pc = "returned" /\ PriorConsolidated
              /\ setup.phase = "Extraction" /\ setup.key = Some("Enter"))
            => /\ Unwrap(setup.extraction).already_consolidated
               /\ setup.result = Unwrap(setup.prior).result
               /\ Lookup(files, OutputPath)
                     = Lookup(Unwrap(setup.prior).files, OutputPath))

\* Setup was confirmed twice on a consolidated configuration.
C18_Witness ==
    /\ setup.pc = "returned"
    /\ setup.runs = 2
    /\ PriorConsolidated
    /\ setup.phase = "Extraction"
    /\ setup.key = Some("Enter")
    /\ Consolidated
    /\ setup.result = Some(Some(Config(OutputPath)))
    /\ files = Unwrap(setup.prior).files
    /\ DirectiveLines(compositor, files[OutputPath]) # <<>>

\* ---------------------------------------------------------------------
\* Setup, manual phase: the path of the monitor file is typed (setup.rs).
\* ---------------------------------------------------------------------

\* expand_tilde: the path under $HOME, None for Err(NoTilde).
expand_tilde(path) ==
    IF IsSome(StripPrefix(path, <<"~", "/">>))
    THEN Some(PathJoin(Home, Unwrap(StripPrefix(path, <<"~", "/">>))))
    ELSE None

\* The components of a path the operating system walks: "" and "." are
\* none.
Components(path) ==
    LET Walked(part) == part # <<>> /\ part # <<".">>
    IN  SelectSeq(SplitChar(path, "/"), Walked)

\* Path::exists for an absolute path: a file of fs, or a directory above one.
Exists(fs, path) ==
    \E f \in DOMAIN fs :
        \/ Components(f) = Components(path) /\ ~EndsWith(path, <<"/">>)
        \/ /\ Len(Components(f)) > Len(Components(path))
           /\ SubSeq(Components(f), 1, Len(Components(path))) = Components(path)

PathCannotBeEmpty == <<"P", "a", "t", "h", " ", "c", "a", "n", "n", "o", "t", " ", "b", "e", " ", "e", "m", "p", "t", "y">>

\* The overwrite warning, by its first words.
AreYouSure == <<"A", "r", "e", " ", "y", "o", "u", " ", "s", "u", "r", "e", "?", " ", "T", "h", "i", "s", " ", "f", "i", "l", "e", " ", "w", "i", "l", "l", " ", "b", "e", " ", "o", "v", "e", "r", "w", "r", "i", "t", "t", "e", "n">>

FileDoesNotExist == <<"F", "i", "l", "e", " ", "d", "o", "e", "s", " ", "n", "o", "t", " ", "e", "x", "i", "s", "t", ".", " ", "P", "l", "e", "a", "s", "e", " ", "e", "n", "t", "e", "r", " ", "a", " ", "v", "a", "l", "i", "d", " ", "p", "a", "t", "h", ".">>

\* init returns Err(e): setup is aborted.
Aborted(st) == [st EXCEPT !.pc = "failed"]

\* Enter on a path that expand_tilde has taken.
EnterExpanded(fs, st, expanded) ==
    IF ~Exists(fs, expanded)
    THEN [st EXCEPT !.error = Some(FileDoesNotExist), !.warned = FALSE]
    ELSE Returned(st, Some(Config(expanded)))

\* Backspace that leaves the warning standing.
ManualBackspaceKeeping(st) ==
    IF st.cursor > 0
    THEN [st EXCEPT !.input = SubSeq(st.input, 1, st.cursor - 1)
                                  \o SubSeq(st.input, st.cursor + 1, Len(st.input)),
                    !.cursor = st.cursor - 1,
                    !.error = None]
    ELSE [st EXCEPT !.error = None]

ManualBackspace(st) ==
    IF st.cursor > 0
    THEN [st EXCEPT !.input = SubSeq(st.input, 1, st.cursor - 1)
                                  \o SubSeq(st.input, st.cursor + 1, Len(st.input)),
                    !.cursor = st.cursor - 1,
                    !.error = None,
                    !.warned = FALSE]
    ELSE [st EXCEPT !.error = None, !.warned = FALSE]

ManualChar(st, c) ==
    [st EXCEPT !.input = SubSeq(st.input, 1, st.cursor) \o <<c>>
                             \o SubSeq(st.input, st.cursor + 1, Len(st.input)),
               !.cursor = st.cursor + 1,
               !.error = None,
               !.warned = FALSE]

ManualDelete(st) ==
    IF st.cursor < Len(st.input)
    THEN [st EXCEPT !.input = SubSeq(st.input, 1, st.cursor)
                                  \o SubSeq(st.input, st.cursor + 2, Len(st.input)),
                    !.error = None,
                    !.warned = FALSE]
    ELSE [st EXCEPT !.error = None, !.warned = FALSE]

ManualLeft(st) ==
    IF st.cursor > 0 THEN [st EXCEPT !.cursor = st.cursor - 1] ELSE st

ManualRight(st) ==
    IF st.cursor < Len(st.input) THEN [st EXCEPT !.cursor = st.cursor + 1] ELSE st

ManualHome(st) == [st EXCEPT !.cursor = 0]

ManualEnd(st) == [st EXCEPT !.cursor = Len(st.input)]

ManualEnter(fs, st) ==
    IF Trim(st.input) = <<>>
    THEN [st EXCEPT !.error = Some(PathCannotBeEmpty)]
    ELSE IF ~st.warned
    THEN [st EXCEPT !.warned = TRUE, !.error = Some(AreYouSure)]
    ELSE IF ~IsSome(expand_tilde(Trim(st.input)))
    THEN Aborted(st)
    ELSE EnterExpanded(fs, st, Unwrap(expand_tilde(Trim(st.input))))

\* The keys of the manual phase that edit the input or move the cursor.
ManualKey(st, key) ==
    CASE key = "Backspace" -> ManualBackspace(st)
      [] key = "Delete" -> ManualDelete(st)
      [] key = "Left" -> ManualLeft(st)
      [] key = "Right" -> ManualRight(st)
      [] key = "Home" -> ManualHome(st)
      [] OTHER -> ManualEnd(st)

\* The characters the user types.
Typed == {"~", "/", "m"}

\* More keys than this are not pressed in the manual phase.
ManualKeys == 5

\* A key of the manual phase is read and has led to st.
ManualStep(st) ==
    /\ KeyComes
    /\ setup' = st
    /\ keys_left' = Pressed
    /\ UNCHANGED <<appVars, envVars, loop_pc, had_events, last_key, fnVars, chanVars, asked, files>>

SetupChar ==
    /\ InLoop("Manual")
    /\ \E c \in Typed : ManualStep(ManualChar(KeyRead(setup, "Char"), c))

SetupEdit ==
    /\ InLoop("Manual")
    /\ \E key \in {"Backspace", "Delete", "Left", "Right", "Home", "End"} :
           ManualStep(ManualKey(KeyRead(setup, key), key))

SetupEnterManual ==
    /\ InLoop("Manual")
    /\ ManualStep(ManualEnter(files, KeyRead(setup, "Enter")))

\* The file systems the manual phase is followed on.
ManualFiles(c) ==
    IF c = "Hyprland"
    THEN {<<>>,
          Stored(<<>>, Home \o <<"/", ".", "c", "o", "n", "f", "i", "g", "/", "h", "y", "p", "r", "/", "m", "o", "n", "i", "t", "o", "r", "s", ".", "c", "o", "n", "f">>, <<"m", "o", "n", "i", "t", "o", "r", " ", "=", " ", "B", ",", " ", "1", "x", "1", ",", " ", "1", "x", "0", ",", " ", "1", "\n">>),
          Stored(<<>>, Home \o <<"/", ".", "c", "o", "n", "f", "i", "g", "/", "h", "y", "p", "r", "/", "h", "y", "p", "r", "l", "a", "n", "d", ".", "c", "o", "n", "f">>, <<"m", "o", "n", "i", "t", "o", "r", " ", "=", " ", "A", ",", " ", "1", "x", "1", ",", " ", "0", "x", "0", ",", " ", "1", "\n">>),
          Stored(<<>>, Home \o <<"/", ".", "c", "o", "n", "f", "i", "g", "/", "h", "y", "p", "r", "/", "h", "y", "p", "r", "l", "a", "n", "d", ".", "c", "o", "n", "f">>, <<"b", "i", "n", "d", " ", "=", " ", "Q", ",", " ", "e", "x", "i", "t", "\n">>)}
    ELSE {<<>>, Stored(<<>>, Home \o <<"/", "m">>, <<"m", "o", "n", "i", "t", "o", "r", " ", "=", " ", "B", ",", " ", "1", "x", "1", ",", " ", "1", "x", "0", ",", " ", "1", "\n">>)}

InitManual ==
    /\ AppInit({"Hyprland", "Unknown"}, {<<>>}, Some(ManualKeys), Some(0))
    /\ config_file = None
    /\ FnIdle
    /\ files \in ManualFiles(compositor)
    /\ setup = NotStarted

NextManual ==
    \/ SetupStart
    \/ SetupEnterExtraction
    \/ SetupManual
    \/ SetupEsc
    \/ SetupChar
    \/ SetupEdit
    \/ SetupEnterManual

SpecManual == InitManual /\ [][NextManual]_vars

\* The step is the manual phase handling the key.
ManualHandles(key) ==
    InLoop("Manual") /\ keys_left' # keys_left /\ setup'.key = Some(key)

\* The typed path is empty, is no path setup can take, or names nothing:
\* "~/" stands for $HOME, an absolute path for itself.
Unacceptable(fs, input) ==
    \/ Trim(input) = <<>>
    \/ IF StartsWith(Trim(input), <<"~", "/">>)
       THEN ~Exists(fs, Home \o <<"/">> \o SubSeq(Trim(input), 3, Len(Trim(input))))
       ELSE IF StartsWith(Trim(input), <<"/">>)
       THEN ~Exists(fs, Trim(input))
       ELSE TRUE

\* C23: in manual setup, Enter on a path that is empty, invalid or does not
\* exist reports an error inline, keeps the loop running, produces no
\* Config and leaves the input as typed, whatever the input is, paths that
\* do not start with "~/" included.
C23_BadPathReportedInline ==
    [][(ManualHandles("Enter") /\ Unacceptable(files, setup.input))
          => /\ setup'.pc = "loop"
             /\ IsSome(setup'.error)
             /\ setup'.result = None
             /\ setup'.input = setup.input
      ]_vars

\* C24: manual setup returns a Config only on an Enter pressed with the
\* overwrite warning already shown, by an earlier Enter, for the input as it
\* is; a character, Backspace or Delete after the warning cancels it, so
\* that the next Enter shows the warning again.
C24_WarningBeforeAccept ==
    [][/\ (InLoop("Manual") /\ setup'.pc = "returned" /\ setup'.result # Some(None))
             => (setup.warned /\ ManualHandles("Enter"))
       /\ (setup.pc = "loop" /\ setup'.warned /\ ~setup.warned)
             => /\ ManualHandles("Enter")
                /\ setup'.error = Some(AreYouSure)
                /\ setup'.input = setup.input
                /\ setup'.pc = "loop"
       /\ (setup.pc = "loop" /\ setup.warned /\ setup'.warned)
             => setup'.input = setup.input
       /\ (ManualHandles("Char") \/ ManualHandles("Backspace") \/ ManualHandles("Delete"))
             => ~setup'.warned
       /\ (ManualHandles("Enter") /\ ~setup.warned /\ Trim(setup.input) # <<>>)
             => (setup'.pc = "loop" /\ setup'.error = Some(AreYouSure))
      ]_vars

\* A typed path was accepted by the second of two Enters.
C24_Witness ==
    /\ setup.pc = "returned"
    /\ setup.phase = "Manual"
    /\ setup.key = Some("Enter")
    /\ setup.warned
    /\ setup.input = <<"~", "/", "m">>
    /\ setup.result = Some(Some(Config(Home \o <<"/", "m">>)))

\* No plan can be found for the files: there is no main config to read, or
\* neither it nor the files it names hold a directive.
NoPlan ==
    \/ ~IsSome(main_config_path(compositor))
    \/ Unwrap(main_config_path(compositor)) \notin DOMAIN files
    \/ \A p \in DOMAIN files :
          \/ DirectiveLines(compositor, files[p]) = <<>>
          \/ /\ p # Unwrap(main_config_path(compositor))
             /\ ~References(compositor, files, Unwrap(main_config_path(compositor)), p)

\* Every write of the plan is in the file system.
AllWritten == files' = AfterWrites(files, Writes(Plan, files))

\* C25: when no plan can be built or the plan has no directives setup
\* starts in the manual phase, and when apply fails after Enter setup goes
\* on in the manual phase with the failure as its error; it returns no
\* Config for the extraction that failed.
C25_FailedExtractionFallsBack ==
    [][/\ (setup.pc = "start" /\ NoPlan)
             => /\ setup'.pc = "loop"
                /\ setup'.phase = "Manual"
                /\ setup'.result = None
       /\ (Applying /\ Enters /\ ~AllWritten)
             => /\ setup'.pc = "loop"
                /\ setup'.phase = "Manual"
                /\ IsSome(setup'.error)
                /\ StartsWith(Unwrap(setup'.error), <<"E", "x", "t", "r", "a", "c", "t", "i", "o", "n", " ", "f", "a", "i", "l", "e", "d", ":", " ">>)
                /\ setup'.result = None
       /\ (setup.pc = "loop" /\ setup.phase = "Manual" /\ IsSome(setup.extraction)
              /\ setup'.pc = "returned" /\ setup'.result # Some(None))
             => /\ ManualHandles("Enter")
                /\ IsSome(expand_tilde(Trim(setup.input)))
                /\ setup'.result
                      = Some(Some(Config(Unwrap(expand_tilde(Trim(setup.input))))))
      ]_vars

\* apply failed on the dedicated file and left it empty; setup went on in
\* the manual phase and has taken a character typed there.
C25_Witness ==
    /\ setup.pc = "loop"
    /\ setup.phase = "Manual"
    /\ IsSome(setup.extraction)
    /\ setup.key = Some("Char")
    /\ setup.result = None
    /\ setup.input # default_config_path(compositor)
    /\ Lookup(files, OutputPath) = Some(<<>>)


(***************************************************************************)
(* Reading Hyprland workspace rules from a configuration text.             *)
(***************************************************************************)
MaxRuleLines == 2

\* What a well-formed workspace line says: its id, its monitor name, and for
\* each flag whether it is absent, true or false.
Flags == {"absent", "true", "false"}

WorkspaceLines ==
    [id : {1, 12}, monitor : {D1, D2}, default : Flags, persistent : Flags]

FlagText(name, flag, comma) ==
    IF flag = "absent" THEN <<>>
    ELSE comma \o name \o <<":">> \o (IF flag = "true" THEN <<"t", "r", "u", "e">> ELSE <<"f", "a", "l", "s", "e">>)

\* workspace = <id>, monitor:<name>[,default:..][,persistent:..], spaced as
\* in the simple form or with no blank around '=' and ',', the name in
\* quotes or bare.
WorkspaceLine(l, compact, quoted) ==
    <<"w", "o", "r", "k", "s", "p", "a", "c", "e">> \o (IF compact THEN <<"=">> ELSE <<" ", "=", " ">>) \o NatToText(l.id)
    \o (IF compact THEN <<",">> ELSE <<",", " ">>) \o <<"m", "o", "n", "i", "t", "o", "r", ":">>
    \o (IF quoted THEN <<"\"">> \o l.monitor \o <<"\"">> ELSE l.monitor)
    \o FlagText(<<"d", "e", "f", "a", "u", "l", "t">>, l.default, IF compact THEN <<",">> ELSE <<",", " ">>)
    \o FlagText(<<"p", "e", "r", "s", "i", "s", "t", "e", "n", "t">>, l.persistent, IF compact THEN <<",">> ELSE <<",", " ">>)

\* The file: a blank line, then the lines, as in the parser's tests.
WorkspaceText(ls, compact, quoted) ==
    <<"\n">> \o FlattenSeq([i \in 1..Len(ls) |-> WorkspaceLine(ls[i], compact, quoted) \o <<"\n">>])

InitRules ==
    /\ AppInit({"Hyprland"}, {<<>>}, Some(0), Some(0))
    /\ config_file = None
    /\ fn_in \in {Some([lines |-> ls, compact |-> c, quoted |-> q]) :
                     ls \in SeqsUpTo(WorkspaceLines, MaxRuleLines) \ {<<>>},
                     c \in BOOLEAN, q \in BOOLEAN}
    /\ fn_out = None
    /\ SetupIdle

ParseRules ==
    /\ fn_out = None
    /\ fn_out' = Some(parse_hyprland_workspaces(
                          WorkspaceText(Unwrap(fn_in).lines, Unwrap(fn_in).compact,
                                        Unwrap(fn_in).quoted)))
    /\ UNCHANGED <<appVars, envVars, loopVars, fn_in, setupVars, chanVars, asked>>

NextRules == ParseRules

SpecRules == InitRules /\ [][NextRules]_vars

C27_SimpleFormSetsBothFlags ==
    IsSome(fn_out) =>
        \A i \in 1..Len(Unwrap(fn_in).lines) :
            (Unwrap(fn_in).lines[i].default = "absent"
                /\ Unwrap(fn_in).lines[i].persistent = "absent")
            => /\ i <= Len(Unwrap(fn_out))
               /\ Unwrap(fn_out)[i] = Rule(Unwrap(fn_in).lines[i].id,
                                           Unwrap(fn_in).lines[i].monitor,
                                           TRUE, TRUE)


(***************************************************************************)
(* Lines that are not directives for the output, put into a Hyprland       *)
(* configuration.                                                          *)
(***************************************************************************)
MaxConfigLines == 2

\* The lines that say nothing about the position of D1: a commented
\* directive, a blank line, a directive for another output or for none, and
\* directives for D1 whose position field is missing or cannot be parsed.
NoiseKinds ==
    {"comment", "blank", "other", "unnamed", "missing", "auto", "half"}

NoiseText(kind) ==
    CASE kind = "comment" -> <<"#", " ", "m", "o", "n", "i", "t", "o", "r", " ", "=", " ">> \o D1 \o <<",", " ", "2", "x", "1", "@", "6", "0", ",", " ", "5", "x", "5", ",", " ", "1">>
      [] kind = "blank" -> <<" ", " ">>
      [] kind = "other" -> <<"m", "o", "n", "i", "t", "o", "r", " ", "=", " ">> \o OutputNames[3] \o <<",", " ", "2", "x", "1", "@", "6", "0", ",", " ", "5", "x", "5", ",", " ", "1">>
      [] kind = "unnamed" -> <<"m", "o", "n", "i", "t", "o", "r", "=", ",", "p", "r", "e", "f", "e", "r", "r", "e", "d", ",", "a", "u", "t", "o", ",", "1">>
      [] kind = "missing" -> <<"m", "o", "n", "i", "t", "o", "r", " ", "=", " ">> \o D1 \o <<",", " ", "2", "x", "1", "@", "6", "0">>
      [] kind = "auto" -> <<"m", "o", "n", "i", "t", "o", "r", " ", "=", " ">> \o D1 \o <<",", " ", "2", "x", "1", "@", "6", "0", ",", " ", "a", "u", "t", "o", ",", " ", "1">>
      [] kind = "half" -> <<"m", "o", "n", "i", "t", "o", "r", " ", "=", " ">> \o D1 \o <<",", " ", "2", "x", "1", "@", "6", "0", ",", " ", "5", "x", ",", " ", "1">>

\* A line of the configuration: a directive, or one of the lines above.
ConfigLines ==
    [noise : {"none"}, name : {D1, D2}, disable : {TRUE}, position : {<<0, 0>>}]
        \cup [noise : {"none"}, name : {D1, D2}, disable : {FALSE},
              position : Positions]
        \cup [noise : NoiseKinds, name : {<<>>}, disable : {TRUE}, position : {<<0, 0>>}]

ConfigLineText(l, compact) ==
    IF l.noise = "none" THEN DirectiveLine(l, compact) ELSE NoiseText(l.noise)

ConfigText(ls, compact) ==
    FlattenSeq([i \in 1..Len(ls) |-> ConfigLineText(ls[i], compact) \o <<"\n">>])

\* ls with l put in after its first at lines.
InsertedAt(ls, at, l) ==
    SubSeq(ls, 1, at) \o <<l>> \o SubSeq(ls, at + 1, Len(ls))

NoiseLine(kind) ==
    [noise |-> kind, name |-> <<>>, disable |-> TRUE, position |-> <<0, 0>>]

InitNoise ==
    /\ AppInit({"Hyprland"}, {<<>>}, Some(0), Some(0))
    /\ config_file = None
    /\ fn_in \in {Some([lines |-> ls, compact |-> c, noise |-> k, at |-> at,
                        monitor_name |-> D1]) :
                     ls \in SeqsUpTo(ConfigLines, MaxConfigLines), c \in BOOLEAN,
                     k \in NoiseKinds, at \in 0..MaxConfigLines}
    /\ Unwrap(fn_in).at <= Len(Unwrap(fn_in).lines)
    /\ fn_out = None
    /\ SetupIdle

\* get_saved_monitor_position on the configuration as it is, on the
\* configuration with the line put in, and with no file at the path.
ReadWithNoise ==
    /\ fn_out = None
    /\ fn_out' =
          Some([before |-> get_position(compositor,
                               Some(ConfigText(Unwrap(fn_in).lines, Unwrap(fn_in).compact)),
                               Unwrap(fn_in).monitor_name),
                after |-> get_position(compositor,
                              Some(ConfigText(InsertedAt(Unwrap(fn_in).lines, Unwrap(fn_in).at,
                                                         NoiseLine(Unwrap(fn_in).noise)),
                                              Unwrap(fn_in).compact)),
                              Unwrap(fn_in).monitor_name),
                absent |-> get_position(compositor, None, Unwrap(fn_in).monitor_name)])
    /\ UNCHANGED <<appVars, envVars, loopVars, fn_in, setupVars, chanVars, asked>>

NextNoise == ReadWithNoise

SpecNoise == InitNoise /\ [][NextNoise]_vars

\* The directives of ls that give name a position.
Effective(ls, name) ==
    {i \in 1..Len(ls) : ls[i].noise = "none" /\ ls[i].name = name /\ ~ls[i].disable}

\* C28: a comment line, a blank line, a directive for another output or a
\* malformed directive put anywhere into a Hyprland configuration leaves the
\* saved position parsed for a name as it was and does not make the parse
\* fail; the result is None when no parsable directive other than disable
\* names the output, and when there is no file.
C28_NoiseChangesNothing ==
    IsSome(fn_out) =>
        /\ Unwrap(fn_out).after = Unwrap(fn_out).before
        /\ Unwrap(fn_out).before \in {None} \cup {Some([x |-> p[1], y |-> p[2]]) : p \in Positions}
        /\ Effective(Unwrap(fn_in).lines, Unwrap(fn_in).monitor_name) = {}
              => Unwrap(fn_out).before = None
        /\ Unwrap(fn_out).absent = None

\* A directive for D1 whose position cannot be parsed was put in after the
\* directive that gives D1 its position, behind a commented directive.
C28_Witness ==
    /\ IsSome(fn_out)
    /\ Len(Unwrap(fn_in).lines) = 2
    /\ Unwrap(fn_in).lines[1].noise = "comment"
    /\ Unwrap(fn_in).lines[2].noise = "none"
    /\ Unwrap(fn_in).lines[2].name = D1
    /\ Unwrap(fn_in).noise = "auto"
    /\ Unwrap(fn_in).at = 2
    /\ Unwrap(fn_out).after = Some([x |-> -12, y |-> 7])


(***************************************************************************)
(* The text save_monitor_config writes, read as lines.                     *)
(***************************************************************************)
\* The arrangement with every output turned by t.
Turned(ms, t) == [i \in 1..Len(ms) |-> [ms[i] EXCEPT !.transform = t]]

\* The rule lists given to the formatter: none, one rule, two rules.
FormattedRules ==
    {<<>>, <<Rule(2, D2, FALSE, TRUE)>>,
     <<Rule(1, D1, TRUE, FALSE), Rule(2, <<>>, FALSE, TRUE)>>}

InitFormat ==
    /\ AppInit({"Hyprland", "Sway", "River"}, {<<>>}, Some(0), Some(0))
    /\ config_file = None
    /\ fn_in \in {Some([monitors |-> Turned(ms, t), workspaces |-> ws]) :
                     ms \in UNION {Arrangements(n) : n \in 0..MaxArranged},
                     t \in {"Normal", "Flipped90"},
                     ws \in FormattedRules}
    /\ fn_out = None
    /\ SetupIdle

\* save_monitor_config: the content it gives to std::fs::write.
SaveText ==
    /\ fn_out = None
    /\ fn_out' = Some(SavedContent(compositor, Unwrap(fn_in).monitors,
                                   Unwrap(fn_in).workspaces))
    /\ UNCHANGED <<appVars, envVars, loopVars, fn_in, setupVars, chanVars, asked>>

NextFormat == SaveText

SpecFormat == InitFormat /\ [][NextFormat]_vars

ManagedBy == <<"#", " ", "T", "h", "i", "s", " ", "f", "i", "l", "e", " ", "i", "s", " ", "m", "a", "n", "a", "g", "e", "d", " ", "b", "y", " ", "x", "w", "l", "m", ".", " ", "D", "o", " ", "n", "o", "t", " ", "e", "d", "i", "t", " ", "m", "a", "n", "u", "a", "l", "l", "y", ".">>

\* How a line that configures an output begins in the dialect.
OutputPrefix(c) ==
    CASE c = "Hyprland" -> <<"m", "o", "n", "i", "t", "o", "r", " ", "=", " ">>
      [] c = "Sway" -> <<"o", "u", "t", "p", "u", "t", " ">>
      [] c = "River" -> <<"w", "l", "r", "-", "r", "a", "n", "d", "r", " ", "-", "-", "o", "u", "t", "p", "u", "t", " ">>

\* The output a line names: the text after the prefix up to a blank or comma.
RECURSIVE NameUpTo(_)
NameUpTo(s) ==
    IF s = <<>> \/ Head(s) \in {" ", ","} THEN <<>>
    ELSE <<Head(s)>> \o NameUpTo(Tail(s))

\* The outputs the lines configure, in the order of the lines, an output
\* named by several lines in a row counted once.
RECURSIVE GroupsOf(_, _)
GroupsOf(c, lines) ==
    IF lines = <<>> THEN <<>>
    ELSE LET rest == GroupsOf(c, Tail(lines))
         IN  IF ~StartsWith(Head(lines), OutputPrefix(c)) THEN rest
             ELSE LET name == NameUpTo(SubSeq(Head(lines), Len(OutputPrefix(c)) + 1,
                                              Len(Head(lines))))
                  IN  IF rest # <<>> /\ Head(rest) = name
                         /\ Len(lines) > 1 /\ StartsWith(lines[2], OutputPrefix(c))
                      THEN rest
                      ELSE <<name>> \o rest

\* The places of the lines that begin with prefix.
LinesWith(lines, prefix) == {i \in 1..Len(lines) : StartsWith(lines[i], prefix)}

\* The k-th smallest element of a set of numbers.
RECURSIVE Nth(_, _)
Nth(S, k) == IF k = 1 THEN SetMin(S) ELSE Nth(S \ {SetMin(S)}, k - 1)

\* How the rule of a workspace begins in the dialect.
RulePrefix(c, rule) ==
    IF c = "Hyprland"
    THEN <<"w", "o", "r", "k", "s", "p", "a", "c", "e", " ", "=", " ">> \o IntToText(rule.id) \o <<",", " ", "m", "o", "n", "i", "t", "o", "r", ":">> \o rule.monitor
    ELSE <<"w", "o", "r", "k", "s", "p", "a", "c", "e", " ">> \o IntToText(rule.id) \o <<" ", "o", "u", "t", "p", "u", "t", " ">> \o rule.monitor

WrittenLines == SplitChar(Unwrap(fn_out), "\n")

\* C29: whatever the dialect, the outputs and the rules, the written text
\* begins with the managed-by comment and a blank line, ends with a newline,
\* holds one group of directives per output in the order of the list, and
\* holds the workspace rules, where the dialect has them, after every
\* directive of an output.
C29_WrittenTextShape ==
    IsSome(fn_out) =>
        /\ StartsWith(Unwrap(fn_out), ManagedBy \o <<"\n", "\n">>)
        /\ Unwrap(fn_out)[Len(Unwrap(fn_out))] = "\n"
        /\ GroupsOf(compositor, WrittenLines)
              = [i \in 1..Len(Unwrap(fn_in).monitors) |-> Unwrap(fn_in).monitors[i].name]
        /\ \A i \in LinesWith(WrittenLines, OutputPrefix(compositor)) :
              \A j \in LinesWith(WrittenLines, <<"w", "o", "r", "k", "s", "p", "a", "c", "e">>) : i < j
        /\ Cardinality(LinesWith(WrittenLines, <<"w", "o", "r", "k", "s", "p", "a", "c", "e">>))
              = (IF compositor = "River" THEN 0 ELSE Len(Unwrap(fn_in).workspaces))
        /\ compositor # "River" =>
              \A k \in 1..Len(Unwrap(fn_in).workspaces) :
                  StartsWith(WrittenLines[Nth(LinesWith(WrittenLines, <<"w", "o", "r", "k", "s", "p", "a", "c", "e">>), k)],
                             RulePrefix(compositor, Unwrap(fn_in).workspaces[k]))

\* Sway wrote a disabled output, an enabled one and two rules.
C29_Witness ==
    /\ IsSome(fn_out)
    /\ compositor = "Sway"
    /\ Len(Unwrap(fn_in).monitors) = 2
    /\ ~Unwrap(fn_in).monitors[1].enabled
    /\ Unwrap(fn_in).monitors[2].enabled
    /\ Len(Unwrap(fn_in).workspaces) = 2
    /\ Cardinality(LinesWith(WrittenLines, <<"w", "o", "r", "k", "s", "p", "a", "c", "e">>)) = 2

\* Nothing to write but the header: no output and no rule.
C29_WitnessEmpty ==
    /\ IsSome(fn_out)
    /\ Unwrap(fn_in).monitors = <<>>
    /\ Unwrap(fn_in).workspaces = <<>>


(***************************************************************************)
(* The order of a commit of pending positions: send, apply, write.         *)
(***************************************************************************)
\* The step handles Enter in the Monitor panel with positions pending.
CommitsPositions ==
    /\ KeyHandled
    /\ last_key' = "Enter"
    /\ panel = "Monitor"
    /\ \E k \in Keys(pending_positions) : k < Len(monitors)

\* The commands the step has put on the channel are one SetPosition for every
\* pending position.
PositionsSent ==
    /\ Len(commands') = Len(commands)
                          + Cardinality({k \in Keys(pending_positions) : k < Len(monitors)})
    /\ \A k \in Keys(pending_positions) :
          k < Len(monitors) =>
              \E i \in (Len(commands) + 1)..Len(commands') :
                  commands'[i] = [type |-> "SetPosition", name |-> monitors[k + 1].name,
                                  x |-> Unwrap(pending_positions[k])[1],
                                  y |-> Unwrap(pending_positions[k])[2]]

\* C30: a commit of pending positions sends every SetPosition command before
\* it applies any pending position to the committed outputs, and writes the
\* file after both: a committed position changes only when all commands are
\* sent, the file only when the positions are applied, and when a send fails
\* the committed positions are those held before the commit.
C30_SendThenApplyThenWrite ==
    [][CommitsPositions =>
          /\ monitors' # monitors => PositionsSent
          /\ config_file' # config_file => (PositionsSent /\ PositionsMerged)
          /\ error_message' = Some("Failed to apply") => monitors' = monitors
      ]_vars


(***************************************************************************)
(* One iteration of the loop: drain, render, at most one key.              *)
(***************************************************************************)
DrainCap == 2

DrainKeys == 2

DrainHotplugs == 2

PlugQueued == PlugUpTo(DrainCap)

UnplugQueued == UnplugUpTo(DrainCap)

InitDrain ==
    /\ AppInit({"Hyprland"}, Layouts, Some(DrainKeys), Some(DrainHotplugs))
    /\ config_file = None
    /\ FnIdle /\ SetupIdle

NextDrain ==
    \/ DrainEvent
    \/ DrainDone
    \/ NoKey
    \/ KeySelectNext
    \/ KeyQuit
    \/ PlugQueued
    \/ UnplugQueued

SpecDrain == InitDrain /\ [][NextDrain]_vars

\* The step takes the first event of the channel and applies it.
AppliesFirst ==
    /\ events' = Tail(events)
    /\ \E order \in Orders(IF Head(events).type = "Removed"
                              /\ IsSome(NamePosition(monitors, Head(events).name))
                           THEN Keys(pending_positions)
                                   \ {Unwrap(NamePosition(monitors, Head(events).name))}
                           ELSE {}) :
          Becomes(ApplyEvent(World, Head(events), order))

\* C31: in every iteration of the loop the events queued in the channel are
\* applied to the arrangement in the order received, all of them before the
\* render and before a key is handled, and at most one key is handled in an
\* iteration.
C31_DrainThenOneKey ==
    [][/\ Len(events') < Len(events) => (loop_pc = "drain" /\ AppliesFirst)
       /\ Len(events') >= Len(events) => SubSeq(events', 1, Len(events)) = events
       /\ (loop_pc = "drain" /\ loop_pc' # "drain") => events = <<>>
       /\ keys_left' # keys_left => (loop_pc = "key" /\ loop_pc' # "key")
       /\ (loop_pc # "drain" /\ appVars' # appVars) => keys_left' # keys_left
      ]_vars

\* The drain has applied an event and two more wait in the channel, an
\* output coming and an output going.
C31_Witness ==
    /\ loop_pc = "drain"
    /\ had_events
    /\ Len(events) = 2
    /\ events[1].type = "Changed"
    /\ events[2].type = "Removed"


(***************************************************************************)
(* The two bounded channels with sends that block.  SyncSender::send waits *)
(* while the command channel holds CommandCap commands; the protocol       *)
(* thread waits in the same way while the event channel holds EventCap     *)
(* events.                                                                 *)
(***************************************************************************)
ChannelKeys == 4

\* The commands apply_positions sends for the pending positions, in order.
PositionCommands(w, order) ==
    apply_positions([w EXCEPT !.commands = <<>>, !.receiver_alive = TRUE], order).commands

\* Enter in the Monitor panel when the channel has no room for every
\* command: apply_action has copied the pending positions, apply_positions
\* has sent the commands that fit and waits in send() with the others.
CommitBlocks ==
    /\ Reading /\ ~pending_last_toggle_monitor
    /\ KeyComes
    /\ receiver_alive
    /\ panel = "Monitor"
    /\ \E order \in Orders(Keys(pending_positions)) :
          /\ Len(commands) + Len(PositionCommands(World, order)) > CommandCap
          /\ Becomes([merge_pending_positions(clear_error(World)) EXCEPT
                         !.commands = commands
                             \o SubSeq(PositionCommands(World, order), 1,
                                       CommandCap - Len(commands))])
          /\ sending' = SubSeq(PositionCommands(World, order),
                               CommandCap - Len(commands) + 1,
                               Len(PositionCommands(World, order)))
    /\ last_key' = "Enter"
    /\ loop_pc' = "send"
    /\ keys_left' = Pressed
    /\ UNCHANGED <<envVars, had_events, fnVars, setupVars, delivering, asked>>

\* The channel has room again and send() returns; after the last command
\* apply_action goes on: the overlay is cleared and the file saved.
SendResumes ==
    /\ loop_pc = "send"
    /\ Len(commands) < CommandCap
    /\ IF Len(sending) > 1
       THEN /\ Becomes([World EXCEPT !.commands = Append(@, Head(sending))])
            /\ loop_pc' = "send"
       ELSE /\ \E write_ok \in BOOLEAN :
                  Becomes(SavedAfter(
                      clear_pending_positions(
                          [World EXCEPT !.commands = Append(@, Head(sending)),
                                        !.ret = "Ok"]),
                      write_ok))
            /\ loop_pc' = "drain"
    /\ sending' = Tail(sending)
    /\ UNCHANGED <<envVars, had_events, last_key, keys_left, fnVars, setupVars, delivering, asked>>

\* The protocol thread takes a command, applies it and reports the change;
\* with the event channel full it waits in its send with the event.
ProtocolTakes ==
    /\ receiver_alive
    /\ delivering = <<>>
    /\ commands # <<>>
    /\ IsSome(NamePosition(outputs, Head(commands).name))
    /\ LET i == Unwrap(NamePosition(outputs, Head(commands).name)) + 1
           changed == Commanded(outputs[i], Head(commands))
       IN  /\ outputs' = [outputs EXCEPT ![i] = changed]
           /\ IF Len(events) < EventCap
              THEN /\ events' = Append(events, [type |-> "Changed", monitor |-> changed])
                   /\ delivering' = <<>>
              ELSE /\ events' = events
                   /\ delivering' = <<[type |-> "Changed", monitor |-> changed]>>
    /\ Becomes([World EXCEPT !.commands = Tail(@)])
    /\ UNCHANGED <<receiver_alive, hotplugs_left, loopVars, fnVars, setupVars, sending, asked>>

\* The event channel has room again and the protocol thread's send returns.
ProtocolDelivers ==
    /\ delivering # <<>>
    /\ Len(events) < EventCap
    /\ events' = Append(events, Head(delivering))
    /\ delivering' = Tail(delivering)
    /\ UNCHANGED <<appVars, receiver_alive, outputs, hotplugs_left, loopVars, fnVars,
                   setupVars, sending, asked>>

InitChannels ==
    /\ AppInit({"Hyprland"}, CommitLayouts, Some(ChannelKeys), Some(MaxHotplugs))
    /\ config_file = None
    /\ FnIdle /\ SetupIdle

NextChannels ==
    \/ DrainEvent
    \/ DrainDone
    \/ KeyMove
    \/ KeyEnter
    \/ CommitBlocks
    \/ SendResumes
    \/ ProtocolTakes
    \/ ProtocolDelivers
    \/ Plug

SpecChannels == InitChannels /\ [][NextChannels]_vars

\* The interactive thread waits in send() on the full command channel.
InteractiveBlocked == loop_pc = "send" /\ Len(commands) = CommandCap

\* The protocol thread waits in its send on the full event channel.
ProtocolBlocked == delivering # <<>> /\ Len(events) = EventCap

\* C32: no command is dropped and the interactive thread is not blocked for
\* ever: a send on the full command channel waits until the protocol thread
\* takes a command and then completes, also while the protocol thread is
\* delivering events on the full event channel; the two threads never wait
\* for each other.
C32_NoMutualWait == ~(InteractiveBlocked /\ ProtocolBlocked)


(***************************************************************************)
(* The scale as the formatter writes it.                                   *)
(***************************************************************************)
\* The range scale_up and scale_down keep pending_scale in, in thousandths.
ScaleMin == 500

ScaleMax == 10000

InitScale ==
    /\ AppInit({"Hyprland"}, {<<>>}, Some(0), Some(0))
    /\ config_file = None
    /\ fn_in \in {Some([scale |-> s]) : s \in ScaleMin..ScaleMax}
    /\ fn_out = None
    /\ SetupIdle

FormatScale ==
    /\ fn_out = None
    /\ fn_out' = Some(format_scale(Unwrap(fn_in).scale))
    /\ UNCHANGED <<appVars, envVars, loopVars, fn_in, setupVars, chanVars, asked>>

NextScale == FormatScale

SpecScale == InitScale /\ [][NextScale]_vars

Digits == {"0", "1", "2", "3", "4", "5", "6", "7", "8", "9"}

\* Digits, a point, two digits.
TwoDecimals(text) ==
    /\ Len(text) >= 4
    /\ text[Len(text) - 2] = "."
    /\ \A i \in 1..Len(text) : i # Len(text) - 2 => text[i] \in Digits

\* C33: a scale within 0.001 of an integer n, a little below n included, is
\* written as the numeral n with no decimal point; every other scale is
\* written with exactly two decimals.
C33_ScaleRendering ==
    IsSome(fn_out) =>
        IF NearInteger(Unwrap(fn_in).scale)
        THEN Unwrap(fn_out) = IntToText((Unwrap(fn_in).scale + 500) \div 1000)
        ELSE TwoDecimals(Unwrap(fn_out))


(***************************************************************************)
(* Toggles sent while the answer to an earlier Toggle is on its way.       *)
(***************************************************************************)
\* The compositor's outputs once the first n queued commands took effect.
RECURSIVE AfterSent(_, _)
AfterSent(queue, n) ==
    IF n = 0 THEN outputs
    ELSE LET before == AfterSent(queue, n - 1)
         IN  [i \in 1..Len(before) |->
                 IF before[i].name = queue[n].name
                 THEN Commanded(before[i], queue[n])
                 ELSE before[i]]

AnyEnabled(list) == \E i \in 1..Len(list) : list[i].enabled

\* C34: whatever Toggles were sent and whatever events are still unprocessed,
\* a Toggle that leaves no output enabled, once the commands sent before it
\* have taken effect, is sent only by the key 'y' while the confirmation is
\* asked for.
C34_LastOutputNeedsConfirmation ==
    [][\A k \in 1..Len(commands') :
          (/\ k > Len(commands)
           /\ commands'[k].type = "Toggle"
           /\ AnyEnabled(AfterSent(commands', k - 1))
           /\ ~AnyEnabled(AfterSent(commands', k)))
             => (KeyHandled /\ pending_last_toggle_monitor /\ last_key' = "y")
      ]_vars


(***************************************************************************)
(* The confirmation, with the outputs changing while it is asked for.      *)
(***************************************************************************)
AskKeys == 4

InitAsk ==
    /\ AppInit({"Hyprland"}, Layouts, Some(AskKeys), Some(MaxHotplugs))
    /\ FnIdle /\ SetupIdle

NextAsk ==
    \/ DrainEvent
    \/ DrainDone
    \/ NoKey
    \/ KeyToggle
    \/ KeyConfirm
    \/ KeyDismiss
    \/ KeySelectNext
    \/ ProtocolApply
    \/ Plug
    \/ Unplug
    \/ Resync(Layouts)

SpecAsk == InitAsk /\ [][NextAsk]_vars

\* C35: the key 'y', given while the confirmation for disabling an output is
\* asked for, sends one Toggle command that names that output and disables
\* it, whatever Changed, Removed and InitialState events were applied since
\* the confirmation was asked for and left the output in the list.
C35_ConfirmTogglesAsked ==
    [][(/\ KeyHandled /\ pending_last_toggle_monitor /\ last_key' = "y"
        /\ IsSome(NamePosition(monitors, Unwrap(asked))))
          => /\ Len(commands') = Len(commands) + 1
             /\ commands'[Len(commands')].type = "Toggle"
             /\ commands'[Len(commands')].name = Unwrap(asked)
             /\ commands'[Len(commands')].position = None
      ]_vars


(***************************************************************************)
(* Mode, scale and transform: the command, its Changed event, the file.    *)
(***************************************************************************)
ApplyKeys == 5

Scales == {1000, 1500, 2000}

Transforms == {"Normal", "Rotate90"}

\* The output with the value the command asked for (value stands for the
\* command's payload): another mode, scale or transform than it has.
Set(output, kind, value) ==
    CASE kind = "SwitchMode" -> [output EXCEPT !.modes = <<Mode(value, 1)>>]
      [] kind = "SetScale" -> [output EXCEPT !.scale = value]
      [] kind = "SetTransform" -> [output EXCEPT !.transform = value]

Values(kind) ==
    CASE kind = "SwitchMode" -> {1, 2}
      [] kind = "SetScale" -> Scales
      [] kind = "SetTransform" -> Transforms

\* The protocol thread applies a SwitchMode, SetScale or SetTransform command
\* and reports the output by a Changed event.
ProtocolSets ==
    /\ receiver_alive
    /\ commands # <<>>
    /\ Head(commands).type \in {"SwitchMode", "SetScale", "SetTransform"}
    /\ Len(events) < EventCap
    /\ IsSome(NamePosition(outputs, Head(commands).name))
    /\ LET i == Unwrap(NamePosition(outputs, Head(commands).name)) + 1
       IN  \E value \in Values(Head(commands).type) :
              LET changed == Set(outputs[i], Head(commands).type, value)
              IN  /\ changed # outputs[i]
                  /\ outputs' = [outputs EXCEPT ![i] = changed]
                  /\ events' = Append(events, [type |-> "Changed", monitor |-> changed])
    /\ Becomes([World EXCEPT !.commands = Tail(@)])
    /\ UNCHANGED <<receiver_alive, hotplugs_left, loopVars, fnVars, setupVars, chanVars, asked>>

InitApply ==
    /\ AppInitWith({"Hyprland"}, Layouts, Some(ApplyKeys), Some(0), {None})
    /\ FnIdle /\ SetupIdle

NextApply ==
    \/ DrainEvent
    \/ DrainDone
    \/ NoKey
    \/ KeyTab
    \/ KeySelectNext
    \/ KeyEnter
    \/ ProtocolSets

SpecApply == InitApply /\ [][NextApply]_vars

\* Every command sent has been answered and every event applied; the loop
\* waits for a key.
Answered == loop_pc = "key" /\ events = <<>> /\ commands = <<>>

\* What save_config would write of the engine's outputs as they are.
Described == save_config([World EXCEPT !.needs_save = TRUE], TRUE).config_file

\* C36: once the Changed event that answers an applied mode, scale or
\* transform has been processed, the file last written describes the output
\* with its new value, with no further key.
C36_FileFollowsApply == (Answered /\ IsSome(config_file)) => config_file = Described


(***************************************************************************)
(* The output a committed workspace assignment names, across list changes. *)
(***************************************************************************)
\* The name of the output the assignment refers to in the list, if any.
AssignedName(assignment, list) ==
    IF IsSome(assignment.monitor_idx) /\ Unwrap(assignment.monitor_idx) < Len(list)
    THEN Some(list[Unwrap(assignment.monitor_idx) + 1].name)
    ELSE None

\* C37: remove_monitor and every set_monitors leave each committed workspace
\* assignment that referred to an output still in the list referring to the
\* output of the same name.
C37_AssignmentKeepsName ==
    [][(Drained /\ Head(events).type \in {"Removed", "InitialState"})
          => \A i \in 1..Len(workspace_assignments) :
                LET name == AssignedName(workspace_assignments[i], monitors)
                IN  (IsSome(name) /\ IsSome(NamePosition(monitors', Unwrap(name))))
                       => AssignedName(workspace_assignments'[i], monitors') = name
      ]_vars


(***************************************************************************)
(* A protocol that refuses every command.                                  *)
(***************************************************************************)
FailKeys == 3

InitFail ==
    /\ AppInitWith({"Hyprland"}, Layouts, Some(FailKeys), Some(0), {None})
    /\ FnIdle /\ SetupIdle

\* No key edits a workspace assignment, so every commit that reaches the
\* save has sent a command, and every command is answered by ActionFailed.
NextFail ==
    \/ DrainEvent
    \/ DrainDone
    \/ NoKey
    \/ KeyMove
    \/ KeyToggle
    \/ KeyConfirm
    \/ KeyDismiss
    \/ KeySelectNext
    \/ KeyTab
    \/ KeyEnter
    \/ ProtocolFail

SpecFail == InitFail /\ [][NextFail]_vars

\* Every command sent has been reported failed and the report applied.
AllFailed == loop_pc = "key" /\ events = <<>> /\ commands = <<>>

\* C38: when every command the user's actions sent has been reported by
\* ActionFailed, the config file has not been written on account of any of
\* them: it is as it was at the start, absent.
C38_FailedActionNotSaved == AllFailed => config_file = None


(***************************************************************************)
(* The selection, with outputs coming, going and listed afresh.            *)
(***************************************************************************)
SelectKeys == 2

SelectHotplugs == 2

\* The lists a resync may report: those of Layouts and the empty list.
SelectLayouts == Layouts \cup {<<>>}

InitSelect ==
    /\ AppInit({"Hyprland"}, SelectLayouts, Some(SelectKeys), Some(SelectHotplugs))
    /\ FnIdle /\ SetupIdle

NextSelect ==
    \/ DrainEvent
    \/ DrainDone
    \/ NoKey
    \/ KeySelectNext
    \/ KeySelectPrev
    \/ Plug
    \/ Unplug
    \/ Resync(SelectLayouts)

SpecSelect == InitSelect /\ [][NextSelect]_vars

\* C39: whenever the output list is not empty the selected index is smaller
\* than its length, across set_monitors, update_monitor, remove_monitor,
\* select_next_monitor and select_prev_monitor; and set_monitors with a list
\* that is not empty leaves the selection at 0.
C39_SelectionInRange ==
    /\ [](monitors # <<>> => selected_monitor < Len(monitors))
    /\ [][(Drained /\ Head(events).type = "InitialState"
              /\ Head(events).monitors # <<>>)
             => selected_monitor' = 0]_vars

\* select_prev_monitor has wrapped to the last of several outputs after the
\* list has changed twice.
C39_Witness ==
    /\ last_key = "["
    /\ Len(monitors) >= 2
    /\ selected_monitor = Len(monitors) - 1
    /\ hotplugs_left = Some(0)


\* The file apply writes output_content to.
AppliedPath == PathJoin(Unwrap(Parent(MainConfig)), extract_output_filename(Plan))

\* C40: for every plan that setup applies, the file apply writes the
\* directives to is the path setup returns as monitor_config_path, also when
\* the plan has no source line.
C40_AppliedPathIsStoredPath ==
    [][(Applying /\ Enters) => AppliedPath = OutputPath]_vars

=============================================================================
